---- MODULE Spec2Model ----
(***************************************************************************)
(* A model of newSpice: the SimRunner task scheduler                       *)
(* (src/newSpice/sim/sim_runner.py) and the SpiceEditor netlist document   *)
(* (src/newSpice/editor/spice_editor.py).                                  *)
(*                                                                         *)
(* Spec     : one caller driving one SimRunner while simulator processes   *)
(*            exit and time passes.                                        *)
(* SpecWait : the same, every run() call made with wait_resource=True.     *)
(* SpecRun  : one caller launching runs with any callback and file name.   *)
(* SpecEdit : one caller driving one SpiceEditor built on a netlist file.  *)
(* SpecParam: one caller setting and getting parameters of a SpiceEditor.  *)
(* SpecDirective, SpecLookup: one caller adding and removing directives,   *)
(*            and editing components that may not be there.                *)
(* SpecLoad : a SpiceEditor constructed on any netlist file of a few lines.*)
(***************************************************************************)
EXTENDS Integers, Sequences, FiniteSets, TLC

\* ------------------------------------------------------------------ bounds
\* runs launched on one SimRunner (cap on runno)
MaxRuns == 2
\* largest value of the clock
MaxTime == 1

\* calls made on one SpiceEditor
MaxEdits == 3

\* lines of a netlist file that is loaded
MaxLines == 5

\* Python's None, for the optional numeric arguments and fields
NoneT == 0 - 1

VARIABLES
    \* ---- SimRunner fields (sim_runner.py:153-178)
    parallel_sims,      \* self.parallel_sims
    timeout,            \* self.timeout (NoneT: no timeout)
    active_tasks,       \* self.active_tasks: sequence of task keys
    completed_tasks,    \* self.completed_tasks: sequence of task keys
    iterator_counter,   \* self._iterator_counter
    runno,              \* self.runno
    okSim,              \* self.okSim
    failSim,            \* self.failSim
    \* ---- the RunTask objects ever created, keyed by creation order
    tasks,
    \* ---- time
    now,                \* clock_function(), the wall clock
    \* ---- the caller: where it is and the locals of the call in progress
    pc,                 \* "idle", "run_wait", "wc_test", "wc_sleep", "next_sleep"
    wait_resource,      \* run(): wait_resource
    run_timeout,        \* run(): timeout after defaulting
    elapsed,            \* run(): clock() - t0
    stop_time,          \* wait_completion(): stop_time (NoneT: unset)
    wc_timeout,         \* wait_completion(): timeout
    result,             \* what the last call returned or raised ("pending": not yet,
                        \* "waiting": run() has polled and found no free slot)
    \* ---- history
    refused,            \* run() calls that returned None
    yielded,            \* the tasks __next__ returned since the last __iter__
    \* ---- the files _prepare_sim wrote: the set of their names
    files,
    run_netlist_file,   \* run(): run_netlist_file (empty: no call in progress)
    all_started,        \* every run()/run_now() call so far was a run() that started a task
    \* ---- the netlist file of the SpiceEditor: its lines
    template,
    \* ---- SpiceEditor fields (spice_editor.py:173-174, 681-698)
    netlist,            \* self.netlist: sequence of entries
    modified_subcircuits, \* self.modified_subcircuits: (path, object) in insertion order
    \* ---- the SpiceCircuit objects: object number -> its netlist list
    circuits,
    \* ---- the file write_netlist wrote last (empty: none yet)
    written,
    \* ---- history: the calls made on the editor, in order
    calls,
    \* ---- SimStepper field (sim_stepping.py:85-88)
    iter_list,          \* self.iter_list: sequence of StepInfo
    \* ---- history: the netlist of each run the SimStepper issued, in order
    launched,
    \* ---- the two threads of a ServerSimRunner inside SimRunner.update_completed:
    \* where each is, its local i and the task it popped
    uc,
    srv_completed,      \* ServerSimRunner.completed_tasks: the tasks it took over
    \* ---- history: the tasks update_completed counted, and those it appended
    \* to completed_tasks, with whether their thread was alive
    counts,
    moves

svars == <<parallel_sims, timeout, active_tasks, completed_tasks, iterator_counter,
           runno, okSim, failSim, tasks, now, pc, wait_resource, run_timeout,
           elapsed, stop_time, wc_timeout, result, refused, all_started, yielded,
           files, run_netlist_file>>

evars == <<template, netlist, modified_subcircuits, circuits, written, calls>>

stepvars == <<iter_list, launched>>

monvars == <<uc, srv_completed, counts, moves>>

vars == <<svars, evars, stepvars, monvars>>

\* ------------------------------------------------------------- helpers
\* a pop that takes the next element along
PopWithNext(s, i) == SubSeq(s, 1, i - 1) \o SubSeq(s, i + 2, Len(s))
\* list.pop(i): the sequence without its i-th element (1-based here)
Pop(s, i) == SubSeq(s, 1, i - 1) \o SubSeq(s, i + 1, Len(s))

Range(s) == {s[i] : i \in 1..Len(s)}

\* the timeout arguments tried: None and the shortest one
TimeoutInputs == {NoneT, 0}

\* the parallel_sims arguments tried
ParallelInputs == {1, 2}

\* A RunTask right after construction and start(): the thread is alive, the
\* return code still has its initial value.
NewTask(rno, tout, nf) ==
    [runno |-> rno, alive |-> TRUE, retcode |-> 0 - 1, start_time |-> now, timeout |-> tout,
     netlist_file |-> nf]

\* ---------------------------------------------------- text and patterns
\* A Python str is the sequence of its characters; "+" on str is \o.
Lowers == <<"a", "b", "c", "d", "e", "f", "g", "h", "i", "j", "k", "l", "m",
            "n", "o", "p", "q", "r", "s", "t", "u", "v", "w", "x", "y", "z">>

Uppers == <<"A", "B", "C", "D", "E", "F", "G", "H", "I", "J", "K", "L", "M",
            "N", "O", "P", "Q", "R", "S", "T", "U", "V", "W", "X", "Y", "Z">>

Digits == <<"0", "1", "2", "3", "4", "5", "6", "7", "8", "9">>

\* str.upper() on one character
UpperCh(c) ==
    IF \E i \in 1..Len(Lowers) : Lowers[i] = c
    THEN Uppers[CHOOSE i \in 1..Len(Lowers) : Lowers[i] = c]
    ELSE c

\* str.upper()
Upper(s) == [i \in 1..Len(s) |-> UpperCh(s[i])]

\* s[i:j] of Python for 0 <= i, with j capped at len(s) (0-based, j excluded)
Slice(s, i, j) == SubSeq(s, i + 1, IF j < Len(s) THEN j ELSE Len(s))

\* str.startswith
StartsWith(s, p) == Len(s) >= Len(p) /\ SubSeq(s, 1, Len(p)) = p

\* str.endswith
EndsWith(s, p) == Len(s) >= Len(p) /\ SubSeq(s, Len(s) - Len(p) + 1, Len(s)) = p

\* "sub in s" on str
Contains(s, sub) ==
    \E i \in 1..(Len(s) - Len(sub) + 1) : SubSeq(s, i, i + Len(sub) - 1) = sub

END_LINE_TERM == <<"\n">>

SUBCKT_DIVIDER == ":"

\* the character classes of the patterns, as they match under re.IGNORECASE:
\* a class holds upper-case letters and is tested against the upper-cased
\* character
WordChars == Range(Uppers) \cup Range(Digits) \cup {"_", "µ"}

SpaceChars == {" ", "\t", "\n", "\r"}

\* pattern nodes
Ch(S) == [t |-> "ch", set |-> S]

NotCh(S) == [t |-> "nch", set |-> S]

Cat(rs) == [t |-> "cat", rs |-> rs]

Alt(rs) == [t |-> "alt", rs |-> rs]

Rep(r, lo, hi, lazy) == [t |-> "rep", r |-> r, lo |-> lo, hi |-> hi, lazy |-> lazy]

Grp(n, r) == [t |-> "grp", n |-> n, r |-> r]

Cond(n, yes, no) == [t |-> "cond", n |-> n, yes |-> yes, no |-> no]

Bol == [t |-> "bol"]

Eol == [t |-> "eol"]

\* "." (no DOTALL), \w, \s, \S, \d
AnyCh == NotCh({"\n"})

WordCh == Ch(WordChars)

SpaceCh == Ch(SpaceChars)

NonSpaceCh == NotCh(SpaceChars)

DigitCh == Ch(Range(Digits))

\* r?, r*, r+ (greedy), a literal word
Opt(r) == Rep(r, 0, 1, FALSE)

Star(r) == Rep(r, 0, 99, FALSE)

Plus(r) == Rep(r, 1, 99, FALSE)

Lit(s) == Cat([i \in 1..Len(s) |-> Ch({s[i]})])

\* the groups the code reads, and the numbered group a conditional tests
GroupNames == {"designator", "nodes", "model", "value", "brace", "name", "params", "replace"}

Unset == <<0, 0>>

NoGroups == [g \in GroupNames |-> Unset]

\* The backtracking matcher of re: every way pattern r matches s from the
\* state st (position p, groups c), in the order re tries them. A group's span
\* is <<first index, index after the last>>, 1-based.
RECURSIVE M(_, _, _), MEach(_, _, _), MCat(_, _, _, _), MAlt(_, _, _, _), MRep(_, _, _, _), MRepEach(_, _, _, _)
M(r, s, st) ==
    CASE r.t = "ch" ->
            IF st.p <= Len(s) /\ UpperCh(s[st.p]) \in r.set
            THEN << [st EXCEPT !.p = @ + 1] >> ELSE << >>
      [] r.t = "nch" ->
            IF st.p <= Len(s) /\ UpperCh(s[st.p]) \notin r.set
            THEN << [st EXCEPT !.p = @ + 1] >> ELSE << >>
      [] r.t = "bol" -> IF st.p = 1 THEN << st >> ELSE << >>
      [] r.t = "eol" ->
            IF st.p = Len(s) + 1 \/ (st.p = Len(s) /\ s[st.p] = "\n")
            THEN << st >> ELSE << >>
      [] r.t = "cat" -> MCat(r.rs, 1, s, << st >>)
      [] r.t = "alt" -> MAlt(r.rs, 1, s, st)
      [] r.t = "rep" -> MRep(r, 0, s, st)
      [] r.t = "grp" ->
            LET inner == M(r.r, s, st)
            IN  [i \in 1..Len(inner) |-> [inner[i] EXCEPT !.c[r.n] = <<st.p, inner[i].p>>]]
      [] r.t = "cond" ->
            IF st.c[r.n] # Unset THEN M(r.yes, s, st) ELSE M(r.no, s, st)

MEach(r, s, sts) ==
    IF Len(sts) = 0 THEN << >> ELSE M(r, s, Head(sts)) \o MEach(r, s, Tail(sts))

MCat(rs, k, s, sts) ==
    IF k > Len(rs) THEN sts ELSE MCat(rs, k + 1, s, MEach(rs[k], s, sts))

MAlt(rs, k, s, st) ==
    IF k > Len(rs) THEN << >> ELSE M(rs[k], s, st) \o MAlt(rs, k + 1, s, st)

MRep(r, n, s, st) ==
    LET once == M(r.r, s, st)
        moved == SelectSeq(once, LAMBDA x : x.p > st.p)
        more == IF n < r.hi THEN MRepEach(r, n + 1, s, moved) ELSE << >>
        stop == IF n >= r.lo THEN << st >> ELSE << >>
    IN  IF r.lazy THEN stop \o more ELSE more \o stop

MRepEach(r, n, s, sts) ==
    IF Len(sts) = 0 THEN << >> ELSE MRep(r, n, s, Head(sts)) \o MRepEach(r, n, s, Tail(sts))

\* Pattern.match(s): the groups of the first match, or no match
NoMatch == [ok |-> FALSE, c |-> NoGroups]

re_match(r, s) ==
    LET all == M(r, s, [p |-> 1, c |-> NoGroups])
    IN  IF Len(all) = 0 THEN NoMatch ELSE [ok |-> TRUE, c |-> all[1].c]

\* Pattern.search(s): the groups of the first match from the leftmost start
\* that has one, or no match
RECURSIVE search_from(_, _, _)
search_from(r, s, i) ==
    IF i > Len(s) + 1 THEN NoMatch
    ELSE IF Len(M(r, s, [p |-> i, c |-> NoGroups])) > 0
         THEN [ok |-> TRUE, c |-> M(r, s, [p |-> i, c |-> NoGroups])[1].c]
         ELSE search_from(r, s, i + 1)

re_search(r, s) == search_from(r, s, 1)

\* m.group(g): the text of a group of a match on s
GroupText(s, m, g) == SubSeq(s, m.c[g][1], m.c[g][2] - 1)

\* "(\s+\S+)": one node of a component line
NodeRe == Cat(<<Plus(SpaceCh), Plus(NonSpaceCh)>>)

\* "(?P<designator>L§?\w+)" for the prefix letter L
DesignatorRe(L) == Grp("designator", Cat(<<Ch({L}), Opt(Ch({"§"})), Plus(WordCh)>>))

\* REPLACE_REGXES['R']
RegexR ==
    Cat(<< Bol, DesignatorRe("R"),
           Grp("nodes", Rep(NodeRe, 2, 2, FALSE)),
           Opt(Grp("model", Cat(<<Plus(SpaceCh), Plus(WordCh)>>))),
           Plus(SpaceCh),
           Grp("value",
               Cat(<< Opt(Lit(<<"R", "=">>)),
                      Opt(Grp("brace", Ch({"{"}))),
                      Cond("brace",
                           Cat(<<Star(AnyCh), Ch({"}"})>>),
                           Cat(<< Plus(Ch(Range(Digits) \cup {".", "E", "+", "-"})),
                                  Opt(Alt(<< Lit(<<"M", "E", "G">>),
                                             Ch({"K", "M", "U", "µ", "N", "P", "F"}) >>)),
                                  Opt(Ch({"R"})),
                                  Star(DigitCh) >>)) >>)),
           Star(AnyCh), Eol >>)

\* REPLACE_REGXES['V']
RegexV ==
    Cat(<< Bol, DesignatorRe("V"),
           Grp("nodes", Rep(NodeRe, 2, 2, FALSE)),
           Plus(SpaceCh),
           Grp("value", Star(AnyCh)), Eol >>)

\* REPLACE_REGXES['X']
RegexX ==
    Cat(<< Bol, DesignatorRe("X"),
           Grp("nodes", Rep(NodeRe, 1, 99, TRUE)),
           Plus(SpaceCh),
           Grp("value", Plus(WordCh)),
           Opt(Cat(<<Plus(SpaceCh), Lit(<<"P", "A", "R", "A", "M", "S", ":">>)>>)),
           Grp("params",
               Star(Cat(<< Plus(SpaceCh), Plus(WordCh), Star(SpaceCh), Ch({"="}), Star(SpaceCh),
                           Plus(Ch(WordChars \cup {"{", "}", "(", ")", "-", "+", "*", "/"})) >>))),
           Star(SpaceCh), Opt(Ch({"\\"})), Eol >>)

\* the keys of REPLACE_REGXES
ReplacePrefixes ==
    {"A", "B", "C", "D", "E", "F", "G", "H", "I", "J", "K", "L", "M", "O", "Q",
     "R", "S", "T", "U", "V", "W", "X", "Z", "@"}

\* component_replace_regexs[prefix], for the prefixes R, V and X: the netlist
\* files and the designators tried hold no other component
component_replace_regexs(prefix) ==
    CASE prefix = "R" -> RegexR
      [] prefix = "V" -> RegexV
      [] OTHER -> RegexX

\* subckt_regex; every use is on the start of a line, where search is match
subckt_regex ==
    Cat(<< Bol, AnyCh, Lit(<<"S", "U", "B", "C", "K", "T">>), Plus(SpaceCh),
           Grp("name", Plus(WordCh)) >>)

\* ------------------------------------------------- netlist documents
\* An entry of a netlist list is a str or a SpiceCircuit object. Objects live
\* in "circuits" (object number -> its netlist list) so that two lists can
\* hold the same object.
StrEntry(text) == [sub |-> 0, text |-> text]

SubEntry(id) == [sub |-> id, text |-> << >>]

\* index of the first c in s, 0 when there is none
IndexOf(s, c) ==
    IF \E i \in 1..Len(s) : s[i] = c
    THEN CHOOSE i \in 1..Len(s) : s[i] = c /\ \A j \in 1..(i - 1) : s[j] # c
    ELSE 0

\* str.split(sep) for a one-character separator
RECURSIVE Split(_, _)
Split(s, sep) ==
    LET i == IndexOf(s, sep)
    IN  IF i = 0 THEN << s >>
        ELSE << SubSeq(s, 1, i - 1) >> \o Split(SubSeq(s, i + 1, Len(s)), sep)

\* sep.join(parts)
RECURSIVE Join(_, _)
Join(parts, sep) ==
    IF Len(parts) = 0 THEN << >>
    ELSE IF Len(parts) = 1 THEN parts[1]
    ELSE parts[1] \o sep \o Join(Tail(parts), sep)

\* list.insert(i, x) for a 0-based index i that may be negative
Insert(l, i, x) ==
    LET j == IF i < 0 THEN i + Len(l) ELSE i
        k == IF j < 0 THEN 0 ELSE IF j > Len(l) THEN Len(l) ELSE j
    IN  SubSeq(l, 1, k) \o << x >> \o SubSeq(l, k + 1, Len(l))

\* results that are not text: an exception raised, or None
SyntaxErrorCmd == << "SyntaxError" >>

NoneCmd == << "None" >>

\* index of the first character of line that is not a blank or a tab, at or
\* after i; Len(line) + 1 when there is none
RECURSIVE SkipBlanks(_, _)
SkipBlanks(line, i) ==
    IF i <= Len(line) /\ line[i] \in {" ", "\t"} THEN SkipBlanks(line, i + 1) ELSE i

\* index of the first character at or after i that is in the set stops;
\* Len(line) + 1 when there is none
RECURSIVE SkipTo(_, _, _)
SkipTo(line, i, stops) ==
    IF i <= Len(line) /\ line[i] \notin stops THEN SkipTo(line, i + 1, stops) ELSE i

\* get_line_command on a str
get_line_command(line) ==
    LET i == SkipBlanks(line, 1)
    IN  IF i > Len(line) THEN NoneCmd
        ELSE LET ch == UpperCh(line[i])
             IN  IF ch \in ReplacePrefixes THEN << ch >>
                 ELSE IF ch = "+" THEN << "+" >>
                 ELSE IF ch \in {"#", ";", "*", "\n", "\r"} THEN << "*" >>
                 ELSE IF ch = "."
                      THEN Upper(SubSeq(line, i, SkipTo(line, i + 1, {" ", "\t", "\r", "\n"}) - 1))
                 ELSE SyntaxErrorCmd

DotSUBCKT == << ".", "S", "U", "B", "C", "K", "T" >>

DotENDS == << ".", "E", "N", "D", "S" >>

DotEND == << ".", "E", "N", "D" >>

\* get_line_command on an entry of a netlist list
EntryCommand(e) == IF e.sub # 0 THEN DotSUBCKT ELSE get_line_command(e.text)

\* _first_token_upped
first_token_upped(line) ==
    LET j == SkipBlanks(line, 1)
    IN  Upper(SubSeq(line, j, SkipTo(line, j, {" ", "\t"}) - 1))

\* the unique simulation directives
UNIQUE_SIMULATION_DOT_INSTRUCTIONS ==
    { << ".", "A", "C" >>, << ".", "D", "C" >>, << ".", "T", "R", "A", "N" >>,
      << ".", "N", "O", "I", "S", "E" >>, << ".", "O", "P" >>, << ".", "T", "F" >> }

\* the mutation of is_unique_instruction below: no directive is unique
NeverUnique(e) == FALSE

\* _is_unique_instruction
is_unique_instruction(e) == EntryCommand(e) \in UNIQUE_SIMULATION_DOT_INSTRUCTIONS

\* the mutation of get_line_starting_with below: the first str entry is
\* taken, whatever its first token
FirstStrLine(nl, substr) ==
    IF \E k \in 1..Len(nl) : nl[k].sub = 0
    THEN CHOOSE k \in 1..Len(nl) : nl[k].sub = 0 /\ \A j \in 1..(k - 1) : nl[j].sub # 0
    ELSE 0

\* SpiceCircuit._get_line_starting_with: the 1-based index of the first str
\* entry whose first token is substr, 0 for ComponentNotFoundError
get_line_starting_with(nl, substr) ==
    LET hit(k) == nl[k].sub = 0 /\ first_token_upped(nl[k].text) = Upper(substr)
    IN  IF \E k \in 1..Len(nl) : hit(k)
        THEN CHOOSE k \in 1..Len(nl) : hit(k) /\ \A j \in 1..(k - 1) : ~hit(j)
        ELSE 0

\* SpiceCircuit._add_lines from line pos of lines on, into the list nl:
\* the list, the objects, the position reached, whether the circuit was
\* closed, and the exception raised if any
RECURSIVE add_lines(_, _, _, _)
add_lines(lines, pos, nl, objs) ==
    IF pos > Len(lines)
    THEN [nl |-> nl, objs |-> objs, pos |-> pos, finished |-> FALSE, err |-> "ok"]
    ELSE LET line == lines[pos]
             cmd == get_line_command(line)
         IN  IF cmd = SyntaxErrorCmd
             THEN [nl |-> nl, objs |-> objs, pos |-> pos + 1, finished |-> FALSE, err |-> "SyntaxError"]
             ELSE IF cmd = DotSUBCKT
             THEN LET sub == add_lines(lines, pos + 1, << StrEntry(line) >>, objs)
                  IN  IF sub.err # "ok"
                      THEN [sub EXCEPT !.nl = nl]
                      ELSE IF sub.finished
                      THEN add_lines(lines, sub.pos,
                                     Append(nl, SubEntry(Len(sub.objs) + 1)),
                                     Append(sub.objs, sub.nl))
                      ELSE [sub EXCEPT !.nl = nl]
             ELSE IF cmd = << "+" >>
             THEN IF Len(nl) = 0
                  THEN [nl |-> nl, objs |-> objs, pos |-> pos + 1, finished |-> FALSE, err |-> "AssertionError"]
                  ELSE IF nl[Len(nl)].sub # 0
                  THEN [nl |-> nl, objs |-> objs, pos |-> pos + 1, finished |-> FALSE, err |-> "TypeError"]
                  ELSE add_lines(lines, pos + 1, [nl EXCEPT ![Len(nl)].text = @ \o line], objs)
             ELSE IF Slice(cmd, 0, 4) = DotEND
             THEN [nl |-> Append(nl, StrEntry(line)), objs |-> objs, pos |-> pos + 1,
                   finished |-> TRUE, err |-> "ok"]
             ELSE add_lines(lines, pos + 1, Append(nl, StrEntry(line)), objs)

\* SpiceCircuit.write_lines: what the entries of nl from k on write
RECURSIVE write_lines(_, _, _)
write_lines(nl, k, objs) ==
    IF k > Len(nl) THEN << >>
    ELSE (IF nl[k].sub # 0 THEN write_lines(objs[nl[k].sub], 1, objs) ELSE nl[k].text)
         \o write_lines(nl, k + 1, objs)

\* SpiceCircuit.name: the name, or the exception raised
RECURSIVE name_from(_, _)
name_from(nl, k) ==
    IF k > Len(nl) THEN [err |-> "RuntimeError", name |-> << >>]
    ELSE IF nl[k].sub # 0 THEN [err |-> "TypeError", name |-> << >>]
    ELSE LET m == re_match(subckt_regex, nl[k].text)
         IN  IF m.ok THEN [err |-> "ok", name |-> GroupText(nl[k].text, m, "name")]
             ELSE name_from(nl, k + 1)

name(nl) == name_from(nl, 1)

\* line[:start] + value + line[end:] for the span of a group
\* the mutation of ReplaceSpan below: the rest of the line is dropped
ReplaceToEnd(line, span, value) == SubSeq(line, 1, span[1] - 1) \o value

ReplaceSpan(line, span, value) ==
    SubSeq(line, 1, span[1] - 1) \o value \o SubSeq(line, span[2], Len(line))

\* SpiceCircuit.setname on a list that is not empty: the list, or the
\* exception raised
setname(nl, new_name) ==
    LET decl(k) == nl[k].sub = 0 /\ re_match(subckt_regex, nl[k].text).ok
        \* the entries the first loop reads before it stops
        first == IF \E k \in 1..Len(nl) : decl(k)
                 THEN CHOOSE k \in 1..Len(nl) : decl(k) /\ \A j \in 1..(k - 1) : ~decl(j)
                 ELSE Len(nl) + 1
        ends(k) == k >= first /\ EntryCommand(nl[k]) = DotENDS
    IN  IF \E k \in 1..Len(nl) : k <= first /\ nl[k].sub # 0
        THEN [err |-> "TypeError", nl |-> nl]
        ELSE IF first > Len(nl)
        THEN [err |-> "MissingExpectedClauseError", nl |-> nl]
        ELSE LET line == nl[first].text
                 m == re_match(subckt_regex, line)
                 nl1 == [nl EXCEPT ![first].text = ReplaceSpan(line, m.c["name"], new_name)]
             IN  IF \E k \in 1..Len(nl) : ends(k)
                 THEN LET e == CHOOSE k \in 1..Len(nl) : ends(k) /\ \A j \in 1..(k - 1) : ~ends(j)
                      IN  [err |-> "ok",
                           nl |-> [nl1 EXCEPT ![e].text = DotENDS \o << " " >> \o new_name \o END_LINE_TERM]]
                 ELSE [err |-> "MissingExpectedClauseError", nl |-> nl1]

\* a value argument: a str, or a number (an int here)
StrVal(s) == [num |-> FALSE, s |-> s, n |-> 0]

NumVal(n) == [num |-> TRUE, s |-> << >>, n |-> n]

\* the decimal digits of a natural number
RECURSIVE DigitsOf(_)
DigitsOf(n) == IF n < 10 THEN << Digits[n + 1] >> ELSE DigitsOf(n \div 10) \o << Digits[(n % 10) + 1] >>

\* format_eng on a natural number below one million that is below 1000 or a
\* whole number of thousands: the digits, with the suffix k from 1000 on
format_eng(n) ==
    IF n < 1000 THEN DigitsOf(n) ELSE DigitsOf(n \div 1000) \o << "k" >>

\* the text a value argument is written as
ValueText(v) == IF v.num THEN format_eng(v.n) ELSE v.s

\* SpiceCircuit._set_model_and_value on the list nl: the list and the
\* exception raised ("ok": it returned)
circuit_set_model_and_value(nl, component, value) ==
    LET prefix == component[1]
        line_no == get_line_starting_with(nl, component)
        line == nl[line_no].text
        m == re_match(component_replace_regexs(prefix), line)
    IN  IF prefix \notin ReplacePrefixes THEN [err |-> "ok", nl |-> nl]
        ELSE IF line_no = 0 THEN [err |-> "ComponentNotFoundError", nl |-> nl]
        ELSE IF ~m.ok THEN [err |-> "UnrecognizedSyntaxError", nl |-> nl]
        ELSE [err |-> "ok",
              nl |-> [nl EXCEPT ![line_no].text = ReplaceSpan(line, m.c["value"], ValueText(value))]]

\* get_component_value through get_component_info: the value group, or the
\* exception raised
get_component_value(nl, element) ==
    LET prefix == element[1]
        line_no == get_line_starting_with(nl, element)
        line == nl[line_no].text
        m == re_match(component_replace_regexs(prefix), line)
    IN  IF prefix \notin ReplacePrefixes THEN [err |-> "NotImplementedError", val |-> << >>]
        ELSE IF line_no = 0 THEN [err |-> "ComponentNotFoundError", val |-> << >>]
        ELSE IF ~m.ok THEN [err |-> "UnrecognizedSyntaxError", val |-> << >>]
        ELSE [err |-> "ok", val |-> GroupText(line, m, "value")]

CloneHeader ==
    << "*", "*", "*", "*", "*", " ", "S", "p", "i", "c", "e", "E", "d", "i", "t", "o", "r", " ",
       "M", "a", "n", "i", "p", "u", "l", "a", "t", "e", "d", " ", "t", "h", "i", "s", " ",
       "s", "u", "b", "-", "c", "i", "r", "c", "u", "i", "t", " ", "*", "*", "*", "*" >>

CloneFooter ==
    << "*", "*", "*", "*", "*", " ", "E", "N", "D", "S", " ", "S", "p", "i", "c", "e", "E", "d",
       "i", "t", "o", "r", " ", "*", "*", "*", "*" >>

\* the mutation of EditedObject below: the edit is made on the original
EditedOriginal(orig_id, clone_id) == orig_id

\* SpiceEditor._set_model_and_value: "sub_circuit._set_model_and_value(
\* component, value)" acts on the clone
EditedObject(orig_id, clone_id) == clone_id

\* SpiceCircuit.clone(new_name=...) of the list nl: the clone's list, or the
\* exception setname raised
clone(nl, new_name) ==
    setname(<< StrEntry(CloneHeader \o END_LINE_TERM) >> \o nl
            \o << StrEntry(CloneFooter \o END_LINE_TERM) >>, new_name)

\* the while loop of _get_subckt from entry k on: sub-circuit entries are
\* asked their name in turn; 0 when none has the name
RECURSIVE find_named(_, _, _, _)

\* entry k is a sub-circuit whose name() gave nm
NamedOrNext(nl, objs, k, subcircuit_name, nm) ==
    IF nm.err # "ok" THEN [err |-> nm.err, id |-> 0]
    ELSE IF nm.name = subcircuit_name THEN [err |-> "ok", id |-> nl[k].sub]
    ELSE find_named(nl, objs, k + 1, subcircuit_name)

find_named(nl, objs, k, subcircuit_name) ==
    IF k > Len(nl) THEN [err |-> "ComponentNotFoundError", id |-> 0]
    ELSE IF nl[k].sub = 0 THEN find_named(nl, objs, k + 1, subcircuit_name)
    ELSE NamedOrNext(nl, objs, k, subcircuit_name, name(objs[nl[k].sub]))

\* SpiceCircuit._get_subckt on the list nl: the object found, or the
\* exception raised. No library file exists, so a sub-circuit that is not
\* in the list is not found.
RECURSIVE get_subckt(_, _, _)

\* the sub-circuit named on the instance line was looked up: found
Descend(objs, sub_subckts, found) ==
    IF found.err # "ok" \/ Len(sub_subckts) = 0 THEN found
    ELSE get_subckt(objs[found.id], objs, sub_subckts)

\* the instance line inst was matched against the pattern of X: m
LookUp(nl, objs, sub_subckts, inst, m) ==
    IF ~m.ok THEN [err |-> "UnrecognizedSyntaxError", id |-> 0]
    ELSE Descend(objs, sub_subckts, find_named(nl, objs, 1, GroupText(inst, m, "value")))

\* the instance line is entry line_no
AtLine(nl, objs, sub_subckts, line_no) ==
    IF line_no = 0 THEN [err |-> "ComponentNotFoundError", id |-> 0]
    ELSE LookUp(nl, objs, sub_subckts, nl[line_no].text, re_match(RegexX, nl[line_no].text))

get_subckt(nl, objs, instance_name) ==
    LET i == IndexOf(instance_name, SUBCKT_DIVIDER)
    IN  AtLine(nl, objs,
               IF i = 0 THEN << >> ELSE SubSeq(instance_name, i + 1, Len(instance_name)),
               get_line_starting_with(nl, IF i = 0 THEN instance_name
                                          ELSE SubSeq(instance_name, 1, i - 1)))

\* the mutation of InModified below: no path is found in the dict
NeverInModified(mod, path) == FALSE

\* modified_subcircuits is a dict: a list of (path, object) in insertion order
InModified(mod, path) == \E k \in 1..Len(mod) : mod[k].path = path

ModifiedAt(mod, path) == mod[CHOOSE k \in 1..Len(mod) : mod[k].path = path].id

\* SpiceEditor._set_model_and_value on the document doc (its netlist list,
\* the SpiceCircuit objects, modified_subcircuits): the document, and the
\* exception raised ("ok": it returned). The steps of the branch that makes
\* a clone come first, each with the values the code has bound by then.
RECURSIVE editor_set_model_and_value(_, _, _)

\* "sub_circuit._set_model_and_value(component, value)" on the object id of doc
SetInObject(doc, id, component, value, err) ==
    IF err # "ok" THEN [err |-> err, doc |-> doc]
    ELSE LET r == circuit_set_model_and_value(doc.objs[id], component, value)
         IN  [err |-> r.err, doc |-> [doc EXCEPT !.objs[id] = r.nl]]

\* the clone cl of object orig_id is registered under the path, the instance
\* line is retargeted, and the edit is made
RegisterAndSet(doc, path_parts, component, value, orig_id, new_name, cl) ==
    IF cl.err # "ok" THEN [err |-> cl.err, doc |-> doc]
    ELSE LET modified_path == Join(path_parts, << SUBCKT_DIVIDER >>)
             id == Len(doc.objs) + 1
             doc1 == [doc EXCEPT !.objs = Append(@, cl.nl),
                                 !.modified = Append(@, [path |-> modified_path, id |-> id])]
             r1 == editor_set_model_and_value(doc1, modified_path, StrVal(new_name))
         IN  SetInObject(r1.doc, EditedObject(orig_id, id), component, value, r1.err)

\* "new_name = sub_circuit_original.name() + '_' + '_'.join(component_split[:-1])"
\* and the clone under that name
CloneAndSet(doc, path_parts, component, value, orig_id, nm) ==
    IF nm.err # "ok" THEN [err |-> nm.err, doc |-> doc]
    ELSE RegisterAndSet(doc, path_parts, component, value, orig_id,
                        nm.name \o << "_" >> \o Join(path_parts, << "_" >>),
                        clone(doc.objs[orig_id], nm.name \o << "_" >> \o Join(path_parts, << "_" >>)))

\* "sub_circuit_original = self._get_subckt(modified_path)" gave found
FoundAndSet(doc, path_parts, component, value, found) ==
    IF found.err # "ok" THEN [err |-> found.err, doc |-> doc]
    ELSE CloneAndSet(doc, path_parts, component, value, found.id, name(doc.objs[found.id]))

\* the branch for a component inside a sub-circuit instance
SetInInstance(doc, path_parts, component, value) ==
    LET modified_path == Join(path_parts, << SUBCKT_DIVIDER >>)
    IN  IF InModified(doc.modified, modified_path)
        THEN SetInObject(doc, ModifiedAt(doc.modified, modified_path), component, value, "ok")
        ELSE FoundAndSet(doc, path_parts, component, value,
                         get_subckt(doc.netlist, doc.objs, modified_path))

\* "component_split = component.split(SUBCKT_DIVIDER)"
SetSplit(doc, component_split, value) ==
    SetInInstance(doc, SubSeq(component_split, 1, Len(component_split) - 1),
                  component_split[Len(component_split)], value)

editor_set_model_and_value(doc, component, value) ==
    IF component[1] = "X" /\ IndexOf(component, SUBCKT_DIVIDER) # 0
    THEN SetSplit(doc, Split(component, SUBCKT_DIVIDER), value)
    ELSE LET r == circuit_set_model_and_value(doc.netlist, component, value)
         IN  [err |-> r.err, doc |-> [doc EXCEPT !.netlist = r.nl]]

\* SpiceEditor.add_instruction on the list nl
add_instruction(nl, instr) ==
    LET instruction == IF EndsWith(instr, END_LINE_TERM) THEN instr ELSE instr \o END_LINE_TERM
        uniq(k) == is_unique_instruction(nl[k])
        nl1 == IF is_unique_instruction(StrEntry(instruction)) /\ \E k \in 1..Len(nl) : uniq(k)
               THEN [nl EXCEPT ![CHOOSE k \in 1..Len(nl) : uniq(k) /\ \A j \in 1..(k - 1) : ~uniq(j)]
                                  = StrEntry(instruction)]
               ELSE nl
        backanno == StrEntry(<< ".", "b", "a", "c", "k", "a", "n", "n", "o", "\n" >>)
        at(k) == nl1[k] = backanno
        line == IF \E k \in 1..Len(nl1) : at(k)
                THEN (CHOOSE k \in 1..Len(nl1) : at(k) /\ \A j \in 1..(k - 1) : ~at(j)) - 1
                ELSE Len(nl1) - 2
    IN  IF \E k \in 1..Len(nl1) : nl1[k] = StrEntry(instruction)
        THEN nl1
        ELSE Insert(nl1, line, StrEntry(instruction))

\* "del l[i - 1]": the list l without its entry i (counted from 1)
RemoveAt(l, i) == SubSeq(l, 1, i - 1) \o SubSeq(l, i + 1, Len(l))

\* the mutation of EntryEquals below: letter case is not compared
EntryEqualsIgnoringCase(e, text) == e.sub = 0 /\ Upper(e.text) = Upper(text)

\* "x == instruction" as list.remove compares an entry with a str: a
\* SpiceCircuit entry equals no str
EntryEquals(e, text) == e.sub = 0 /\ e.text = text

\* "self.netlist.remove(instruction)": the first equal entry leaves the
\* list; ValueError when there is none
list_remove(nl, text) ==
    IF \E k \in 1..Len(nl) : EntryEquals(nl[k], text)
    THEN [err |-> "ok",
          nl |-> RemoveAt(nl, CHOOSE k \in 1..Len(nl) :
                                /\ EntryEquals(nl[k], text)
                                /\ \A j \in 1..(k - 1) : ~EntryEquals(nl[j], text))]
    ELSE [err |-> "ValueError", nl |-> nl]

\* the mutation of remove_instruction below: the text is looked for as it
\* was given, without the line terminator added
remove_as_given(nl, instr) == list_remove(nl, instr)

\* SpiceEditor.remove_instruction on the list nl
remove_instruction(nl, instr) ==
    list_remove(nl, IF EndsWith(instr, END_LINE_TERM) THEN instr ELSE instr \o END_LINE_TERM)

\* the mutation of ClonesToWrite below: no clone is written
ClonesDropped(mod) == << >>

\* write_netlist: "for sub in self.modified_subcircuits.values()"
ClonesToWrite(mod) == mod

\* what the registered clones write, in the order of registration
RECURSIVE write_clones(_, _, _)
write_clones(mod, k, objs) ==
    IF k > Len(mod) THEN << >>
    ELSE write_lines(objs[mod[k].id], 1, objs) \o write_clones(mod, k + 1, objs)

\* SpiceEditor.write_netlist: the text of the file written, from entry k on
RECURSIVE write_netlist(_, _)
write_netlist(doc, k) ==
    IF k > Len(doc.netlist) THEN << >>
    ELSE LET e == doc.netlist[k]
         IN  (IF e.sub # 0 THEN write_lines(doc.objs[e.sub], 1, doc.objs)
              ELSE (IF StartsWith(Upper(e.text), DotEND)
                    THEN write_clones(ClonesToWrite(doc.modified), 1, doc.objs)
                    ELSE << >>) \o e.text)
             \o write_netlist(doc, k + 1)

\* the mutation of ClearedClones below: the clones survive the reset
ClonesKept(mod) == mod

\* reset_netlist: "self.modified_subcircuits.clear()"
ClearedClones(mod) == << >>

\* the mutation of reset_netlist below: what _add_lines returned is not looked at
reset_unchecked(lines, doc) ==
    [err |-> add_lines(lines, 1, << >>, << >>).err,
     doc |-> [netlist |-> add_lines(lines, 1, << >>, << >>).nl,
              objs |-> add_lines(lines, 1, << >>, << >>).objs,
              modified |-> << >>]]

\* SpiceEditor.reset_netlist on the lines of the netlist file: the document
\* parsed, and the exception raised ("ok": it returned). The objects of the
\* registered clones are the only ones a reference can still reach.
reset_netlist(lines, doc) ==
    LET kept == ClearedClones(doc.modified)
        r == add_lines(lines, 1, << >>, IF Len(kept) = 0 THEN << >> ELSE doc.objs)
    IN  [err |-> IF r.err # "ok" THEN r.err ELSE IF r.finished THEN "ok" ELSE "SyntaxError",
         doc |-> [netlist |-> r.nl, objs |-> r.objs, modified |-> kept]]

\* ---- parameters
\* PARAM_REGEX % param: after a blank, the group "replace" spans
\* "param = value" and the group "value" the value, which ends at a blank or
\* at the end of the line
ParamValueChars == WordChars \cup {"*", "/", ".", "+", "-", "{", "}", "(", ")"}

PARAM_REGEX(param) ==
    Cat(<< SpaceCh,
           Grp("replace", Cat(<< Lit(Upper(param)), Star(SpaceCh), Ch({"="}), Star(SpaceCh),
                                 Grp("value", Star(Ch(ParamValueChars))) >>)),
           Alt(<< Eol, Plus(SpaceCh) >>) >>)

DotPARAM == << ".", "P", "A", "R", "A", "M" >>

\* SpiceCircuit._get_line_matching: the 1-based index of the first str entry
\* with the given command that the pattern finds a match in (0: none)
get_line_matching(nl, command, search_expression) ==
    LET hit(k) == /\ nl[k].sub = 0
                  /\ get_line_command(nl[k].text) = command
                  /\ re_search(search_expression, nl[k].text).ok
    IN  IF \E k \in 1..Len(nl) : hit(k)
        THEN CHOOSE k \in 1..Len(nl) : hit(k) /\ \A j \in 1..(k - 1) : ~hit(j)
        ELSE 0

\* SpiceCircuit.get_parameter: the value, or the exception raised
get_parameter(nl, param) ==
    LET line_no == get_line_matching(nl, DotPARAM, PARAM_REGEX(param))
    IN  IF line_no = 0 THEN [err |-> "ParameterNotFoundError", val |-> << >>]
        ELSE [err |-> "ok",
              val |-> GroupText(nl[line_no].text,
                                re_search(PARAM_REGEX(param), nl[line_no].text), "value")]

\* "{}".format(value) of a str or an int
ParamText(v) == IF v.num THEN DigitsOf(v.n) ELSE v.s

\* the mutation of InsertLine below: the new line goes to the end of the list
InsertLineAtEnd(nl) == Len(nl)

\* set_parameter: "insert_line = len(self.netlist) - 2"
InsertLine(nl) == Len(nl) - 2

\* the line set_parameter inserts
ParamLine(param, value) ==
    DotPARAM \o << " " >> \o param \o << "=" >> \o ParamText(value)
    \o << " ", " ", ";", " ", "B", "a", "t", "c", "h", " ",
          "i", "n", "s", "t", "r", "u", "c", "t", "i", "o", "n" >> \o END_LINE_TERM

\* the line set_parameter rewrites
ParamReplaced(line, param, value) ==
    ReplaceSpan(line, re_search(PARAM_REGEX(param), line).c["replace"],
                param \o << "=" >> \o ParamText(value))

\* SpiceCircuit.set_parameter on the list nl
set_parameter(nl, param, value) ==
    IF get_line_matching(nl, DotPARAM, PARAM_REGEX(param)) # 0
    THEN [nl EXCEPT ![get_line_matching(nl, DotPARAM, PARAM_REGEX(param))].text
                        = ParamReplaced(@, param, value)]
    ELSE Insert(nl, InsertLine(nl), StrEntry(ParamLine(param, value)))

\* ------------------------------------------------ SpiceEditor operations
\* the netlist files tried, as the lines iterating over the file yields
\* two instances of one sub-circuit defined at top level
TemplateShared ==
    << << "*", " ", "t", "\n" >>,
       << "R", "1", " ", "a", " ", "b", " ", "2", "k", "\n" >>,
       << "X", "1", " ", "a", " ", "b", " ", "S", "\n" >>,
       << "X", "2", " ", "a", " ", "b", " ", "S", "\n" >>,
       << ".", "s", "u", "b", "c", "k", "t", " ", "S", " ", "a", " ", "b", "\n" >>,
       << "R", "1", " ", "a", " ", "b", " ", "1", "k", "\n" >>,
       << ".", "e", "n", "d", "s", " ", "S", "\n" >>,
       << ".", "b", "a", "c", "k", "a", "n", "n", "o", "\n" >>,
       << ".", "e", "n", "d", "\n" >> >>

\* a directive continued on a second line, and a line after the closing .end
TemplateTrailing ==
    << << ".", "a", "c", " ", "1", "\n" >>,
       << "+", " ", "2", "\n" >>,
       << "R", "1", " ", "a", " ", "b", " ", "2", "k", "\n" >>,
       << ".", "e", "n", "d", "\n" >>,
       << "*", " ", "x", "\n" >> >>

Templates == {TemplateShared, TemplateTrailing}

\* two parameters defined on one directive line, and no .backanno line
TemplateParam ==
    << << "*", " ", "p", "\n" >>,
       << ".", "p", "a", "r", "a", "m", " ", "X", "=", "1", " ", "Y", " ", "=", " ", "2", "\n" >>,
       << "R", "1", " ", "a", " ", "b", " ", "{", "X", "}", "\n" >>,
       << ".", "e", "n", "d", "\n" >> >>

\* an instance of a sub-circuit that no entry defines, and an instance line
\* with neither nodes nor sub-circuit name
TemplateBroken ==
    << << "*", " ", "b", "\n" >>,
       << "X", "3", " ", "a", " ", "b", " ", "Q", "\n" >>,
       << "X", "4", "\n" >>,
       << ".", "e", "n", "d", "\n" >> >>

\* the text of a file, from its lines
RECURSIVE FileText(_)
FileText(lines) == IF Len(lines) = 0 THEN << >> ELSE Head(lines) \o FileText(Tail(lines))

\* the designators, values and instructions the caller passes
DevR1 == << "R", "1" >>

DevX1R1 == << "X", "1", ":", "R", "1" >>

DevX2R1 == << "X", "2", ":", "R", "1" >>

\* two instances of a sub-circuit S that holds R1 and R2
TemplateTwo ==
    << << "*", " ", "w", "\n" >>,
       << "X", "1", " ", "a", " ", "b", " ", "S", "\n" >>,
       << "X", "2", " ", "a", " ", "b", " ", "S", "\n" >>,
       << ".", "s", "u", "b", "c", "k", "t", " ", "S", " ", "a", " ", "b", "\n" >>,
       << "R", "1", " ", "a", " ", "b", " ", "1", "k", "\n" >>,
       << "R", "2", " ", "a", " ", "b", " ", "2", "k", "\n" >>,
       << ".", "e", "n", "d", "s", " ", "S", "\n" >>,
       << ".", "e", "n", "d", "\n" >> >>

ReuseInputs ==
    { << DevX1R1, StrVal(<< "5" >>) >>,
      << DevX1R1, StrVal(<< "7" >>) >>,
      << << "X", "1", ":", "R", "2" >>, StrVal(<< "7" >>) >>,
      << DevX2R1, StrVal(<< "5" >>) >>,
      << << "X", "1", ":", "X", "2", ":", "R", "1" >>, StrVal(<< "6" >>) >> }

\* the closing .end line is indented
TemplateIndented ==
    << << "*", " ", "i", "\n" >>,
       << "X", "1", " ", "a", " ", "b", " ", "S", "\n" >>,
       << ".", "s", "u", "b", "c", "k", "t", " ", "S", " ", "a", " ", "b", "\n" >>,
       << "R", "1", " ", "a", " ", "b", " ", "1", "k", "\n" >>,
       << ".", "e", "n", "d", "s", " ", "S", "\n" >>,
       << " ", ".", "e", "n", "d", "\n" >> >>

WriteInputs ==
    { << DevX1R1, StrVal(<< "5" >>) >>,
      << DevX2R1, StrVal(<< "7" >>) >> }

\* .endl closes a .lib section
EndDirectiveInputs == { << ".", "e", "n", "d", "l" >> }

RetargetValueInputs ==
    { << DevX1R1, StrVal(<< "5" >>) >>,
      << DevX2R1, StrVal(<< "7" >>) >>,
      << << "X", "1", ":", "X", "2", ":", "R", "1" >>, StrVal(<< "6" >>) >> }

\* set_element_model('X1', 'S'): the sub-circuit an instance uses is chosen
RetargetModelInputs == { << << "X", "1" >>, StrVal(<< "S" >>) >> }

\* a sub-circuit holding R1 and R2 ahead of the top-level lines, two of which
\* start with the designator R1, the first of them in small letters
TemplateFirst ==
    << << "*", " ", "f", "\n" >>,
       << ".", "s", "u", "b", "c", "k", "t", " ", "S", " ", "a", " ", "b", "\n" >>,
       << "R", "1", " ", "a", " ", "b", " ", "1", "k", "\n" >>,
       << "R", "2", " ", "a", " ", "b", " ", "3", "k", "\n" >>,
       << ".", "e", "n", "d", "s", " ", "S", "\n" >>,
       << "r", "1", " ", "a", " ", "b", " ", "2", "k", " ", "t", "c", "=", "1", "\n" >>,
       << "R", "1", " ", "a", " ", "c", " ", "5", "k", "\n" >>,
       << "X", "1", " ", "a", " ", "b", " ", "S", "\n" >>,
       << ".", "e", "n", "d", "\n" >> >>

\* top-level designators in capitals and in small letters, one of them
\* found only inside the sub-circuit
TopInputs ==
    { << DevR1, StrVal(<< "4", "k" >>) >>,
      << DevR1, NumVal(4000) >>,
      << << "r", "1" >>, StrVal(<< "7" >>) >>,
      << << "R", "2" >>, StrVal(<< "7" >>) >>,
      << << "X", "1" >>, StrVal(<< "T" >>) >> }

\* a file of one line, and a file whose .backanno line is not the line
\* before the last
TemplateOne == << << ".", "e", "n", "d", "\n" >> >>

TemplateMarker ==
    << << "*", " ", "m", "\n" >>,
       << ".", "b", "a", "c", "k", "a", "n", "n", "o", "\n" >>,
       << "R", "1", " ", "a", " ", "b", " ", "1", "k", "\n" >>,
       << ".", "e", "n", "d", "\n" >> >>

\* directives that are not of a unique kind, without and with the line
\* terminator
InsertInputs ==
    { << ".", "i", "c", " ", "1" >>,
      << ".", "s", "a", "v", "e", " ", "2", "\n" >> }

\* reset_netlist when the file does not exist and create_blank is set:
\* "lines = ['* netlist generated from newSpice', '.end']"
BlankLines ==
    << << "*", " ", "n", "e", "t", "l", "i", "s", "t", " ", "g", "e", "n", "e", "r", "a", "t", "e", "d", " ", "f", "r", "o", "m", " ", "n", "e", "w", "S", "p", "i", "c", "e" >>,
       << ".", "e", "n", "d" >> >>

\* a directive of a unique kind, and two that are not
BlankInputs ==
    { << ".", "i", "c", " ", "1" >>,
      << ".", "s", "a", "v", "e", " ", "2", "\n" >>,
      << ".", "t", "r", "a", "n", " ", "1" >> }

\* sub-circuits S and S_X1, and instances X1, X2 and X1_X2
TemplateNames ==
    << << "*", " ", "u", "\n" >>,
       << "X", "1", " ", "a", " ", "b", " ", "S", "\n" >>,
       << "X", "2", " ", "a", " ", "b", " ", "S", "_", "X", "1", "\n" >>,
       << "X", "1", "_", "X", "2", " ", "a", " ", "b", " ", "S", "\n" >>,
       << ".", "s", "u", "b", "c", "k", "t", " ", "S", " ", "a", " ", "b", "\n" >>,
       << "R", "1", " ", "a", " ", "b", " ", "1", "k", "\n" >>,
       << ".", "e", "n", "d", "s", " ", "S", "\n" >>,
       << ".", "s", "u", "b", "c", "k", "t", " ", "S", "_", "X", "1", " ", "a", " ", "b", "\n" >>,
       << "R", "1", " ", "a", " ", "b", " ", "3", "k", "\n" >>,
       << ".", "e", "n", "d", "s", " ", "S", "_", "X", "1", "\n" >>,
       << ".", "e", "n", "d", "\n" >> >>

NameInputs ==
    { << DevX1R1, StrVal(<< "5" >>) >>,
      << DevX1R1, StrVal(<< "7" >>) >>,
      << << "X", "2", ":", "R", "1" >>, StrVal(<< "5" >>) >>,
      << << "X", "1", "_", "X", "2", ":", "R", "1" >>, StrVal(<< "5" >>) >> }

SetInputs ==
    { << DevR1, StrVal(<< "4", "k" >>) >>,
      << DevR1, StrVal(<< "1", "G" >>) >>,
      << DevX1R1, StrVal(<< "5", "0", "0" >>) >>,
      << DevX2R1, NumVal(4000) >> }

GetInputs == {DevR1}

InstructionInputs ==
    { << ".", "t", "r", "a", "n", " ", "1" >>,
      << ".", "t", "r", "a", "n", " ", "2", "\n" >> }

\* the instructions asked to be removed: one added without its line
\* terminator, the same in capitals, the same with two blanks, a directive of
\* a template, the .backanno line and a component line
RemoveInputs ==
    { << ".", "t", "r", "a", "n", " ", "1" >>,
      << ".", "T", "R", "A", "N", " ", "1" >>,
      << ".", "t", "r", "a", "n", " ", " ", "1", "\n" >>,
      << ".", "a", "c", " ", "1" >>,
      << ".", "b", "a", "c", "k", "a", "n", "n", "o", "\n" >>,
      << "R", "1", " ", "a", " ", "b", " ", "2", "k" >> }

\* designators that name no line, an instance or a sub-circuit that cannot be
\* found, and an element type without a pattern
FourK == StrVal(<< "4", "k" >>)

LookupSetInputs ==
    { << << "R", "9" >>, FourK >>,
      << << "X", "9", ":", "R", "1" >>, FourK >>,
      << << "X", "3", ":", "R", "1" >>, FourK >>,
      << << "X", "1", ":", "R", "9" >>, FourK >>,
      << << "X", "4", ":", "R", "1" >>, FourK >>,
      << << "Y", "1" >>, FourK >>,
      << << "X", "1", ":", "Y", "1" >>, FourK >> }

LookupModelInputs ==
    { << << "R", "9" >>, FourK >>,
      << << "X", "9", ":", "R", "1" >>, FourK >>,
      << << "Y", "1" >>, FourK >> }

LookupGetInputs == { << "R", "9" >>, << "Y", "1" >>, << "X", "1", ":", "R", "1" >>, DevR1 }

\* the lines a netlist file is made of: a component, a continuation, the
\* opening and the closing of a sub-circuit, and the closing of the circuit
LoadLines ==
    { << "R", "1", " ", "a", " ", "b", " ", "1", "k", "\n" >>,
      << "+", " ", "2", "\n" >>,
      << ".", "s", "u", "b", "c", "k", "t", " ", "S", " ", "a", " ", "b", "\n" >>,
      << ".", "e", "n", "d", "s", " ", "S", "\n" >>,
      << ".", "e", "n", "d", "\n" >> }

\* the netlist files: every sequence of up to MaxLines of these lines
LoadInputs == UNION { [1..n -> LoadLines] : n \in 0..MaxLines }

\* the document the fields of the SpiceEditor hold
Doc == [netlist |-> netlist, objs |-> circuits, modified |-> modified_subcircuits]

\* a call on the editor: the operation, its arguments, what it returned and
\* the exception it raised ("ok": none)
Call(op, arg, val, out, err) == [op |-> op, arg |-> arg, val |-> val, out |-> out, err |-> err]

NoCall == Call("none", << >>, StrVal(<< >>), << >>, "ok")

\* the last call made on the editor, and the one before it
last == IF Len(calls) = 0 THEN NoCall ELSE calls[Len(calls)]

prev == IF Len(calls) < 2 THEN NoCall ELSE calls[Len(calls) - 1]

\* SpiceEditor(netlist_file) for a file of the set Ts: __init__ ends with
\* reset_netlist(), and the constructor returns only if that raised nothing
EditorInit(Ts) ==
    /\ template \in Ts
    /\ LET r == reset_netlist(template, [netlist |-> << >>, objs |-> << >>, modified |-> << >>])
       IN  /\ r.err = "ok"
           /\ netlist = r.doc.netlist
           /\ circuits = r.doc.objs
           /\ modified_subcircuits = r.doc.modified
    /\ written = << >>
    /\ calls = << >>

\* what every call on the editor does to the history
Called(c) ==
    /\ Len(calls) < MaxEdits
    /\ calls' = Append(calls, c)

\* set_component_value(device, value) and set_element_model(element, model):
\* both are "self._set_model_and_value(...)"
SetModelAndValue(op, Inputs) ==
    \E a \in Inputs :
        LET r == editor_set_model_and_value(Doc, a[1], a[2])
        IN  /\ Called(Call(op, a[1], a[2], << >>, r.err))
            /\ netlist' = r.doc.netlist
            /\ circuits' = r.doc.objs
            /\ modified_subcircuits' = r.doc.modified
            /\ UNCHANGED <<template, written>>
            /\ UNCHANGED svars
            /\ UNCHANGED stepvars
            /\ UNCHANGED monvars

\* set_component_value(device, value)
SetComponentValue == SetModelAndValue("set_component_value", SetInputs)

\* get_component_value(element)
GetComponentValueOf(Inputs) ==
    \E element \in Inputs :
        LET r == get_component_value(netlist, element)
        IN  /\ Called(Call("get_component_value", element, StrVal(<< >>), r.val, r.err))
            /\ UNCHANGED <<template, netlist, circuits, modified_subcircuits, written>>
            /\ UNCHANGED svars
            /\ UNCHANGED stepvars
            /\ UNCHANGED monvars

GetComponentValue == GetComponentValueOf(GetInputs)

\* set_component_value on the instances of a document whose names hold "_"
NamesSetComponentValue == SetModelAndValue("set_component_value", NameInputs)

\* set_component_value on components inside the instances of a document
ReuseSetComponentValue == SetModelAndValue("set_component_value", ReuseInputs)

\* edits inside the instances, and edits of the instance lines themselves
RetargetSetComponentValue == SetModelAndValue("set_component_value", RetargetValueInputs)

RetargetSetElementModel == SetModelAndValue("set_element_model", RetargetModelInputs)

\* set_component_value(device, value) with a top-level designator
TopSetComponentValue == SetModelAndValue("set_component_value", TopInputs)

\* the three operations on designators that may name nothing
LookupSetComponentValue == SetModelAndValue("set_component_value", LookupSetInputs)

LookupSetElementModel == SetModelAndValue("set_element_model", LookupModelInputs)

LookupGetComponentValue == GetComponentValueOf(LookupGetInputs)

\* add_instruction(instruction)
AddInstructionOf(Inputs) ==
    \E instruction \in Inputs :
        /\ Called(Call("add_instruction", instruction, StrVal(<< >>), << >>, "ok"))
        /\ netlist' = add_instruction(netlist, instruction)
        /\ UNCHANGED <<template, circuits, modified_subcircuits, written>>
        /\ UNCHANGED svars
        /\ UNCHANGED stepvars
        /\ UNCHANGED monvars

AddInstruction == AddInstructionOf(InstructionInputs)

\* add_instruction of a directive that starts with ".END"
AddEndDirective == AddInstructionOf(EndDirectiveInputs)

\* set_component_value inside the instances, before the document is written
WriteSetComponentValue == SetModelAndValue("set_component_value", WriteInputs)

\* remove_instruction(instruction)
RemoveInstructionOf(Inputs) ==
    \E instruction \in Inputs :
        /\ Called(Call("remove_instruction", instruction, StrVal(<< >>), << >>,
                       remove_instruction(netlist, instruction).err))
        /\ netlist' = remove_instruction(netlist, instruction).nl
        /\ UNCHANGED <<template, circuits, modified_subcircuits, written>>
        /\ UNCHANGED svars
        /\ UNCHANGED stepvars
        /\ UNCHANGED monvars

RemoveInstruction == RemoveInstructionOf(RemoveInputs)

\* add_instruction and remove_instruction with directives that are not of
\* a unique kind
InsertAddInstruction == AddInstructionOf(InsertInputs)

InsertRemoveInstruction == RemoveInstructionOf(InsertInputs)

\* SpiceEditor(netlist_file): __init__ sets the fields and ends with
\* reset_netlist(); what that call raises, the constructor raises
LoadTemplate ==
    /\ calls = << >>
    /\ Called(Call("reset_netlist", << >>, StrVal(<< >>), << >>, reset_netlist(template, Doc).err))
    /\ netlist' = reset_netlist(template, Doc).doc.netlist
    /\ circuits' = reset_netlist(template, Doc).doc.objs
    /\ modified_subcircuits' = reset_netlist(template, Doc).doc.modified
    /\ UNCHANGED <<template, written>>
    /\ UNCHANGED svars
    /\ UNCHANGED stepvars
    /\ UNCHANGED monvars

\* reset_netlist()
ResetNetlist ==
    LET r == reset_netlist(template, Doc)
    IN  /\ Called(Call("reset_netlist", << >>, StrVal(<< >>), << >>, r.err))
        /\ netlist' = r.doc.netlist
        /\ circuits' = r.doc.objs
        /\ modified_subcircuits' = r.doc.modified
        /\ UNCHANGED <<template, written>>
        /\ UNCHANGED svars
        /\ UNCHANGED stepvars
        /\ UNCHANGED monvars

\* write_netlist(run_netlist_file)
WriteNetlist ==
    /\ Called(Call("write_netlist", << >>, StrVal(<< >>), << >>, "ok"))
    /\ written' = write_netlist(Doc, 1)
    /\ UNCHANGED <<template, netlist, circuits, modified_subcircuits>>
    /\ UNCHANGED svars
    /\ UNCHANGED stepvars
    /\ UNCHANGED monvars

\* the lines iterating over a file with the text gives: each ends with its
\* line terminator, but for a last line that has none
RECURSIVE FileLines(_)
FileLines(text) ==
    IF Len(text) = 0 THEN << >>
    ELSE LET n == SkipTo(text, 1, {"\n"})
         IN  IF n > Len(text) THEN << text >>
             ELSE << SubSeq(text, 1, n) >> \o FileLines(SubSeq(text, n + 1, Len(text)))

\* SpiceEditor(run_netlist_file) on the file write_netlist wrote last: the
\* document becomes what was read, or the constructor raises
ReadWritten ==
    /\ last.op = "write_netlist"
    /\ Called(Call("SpiceEditor", << >>, StrVal(<< >>), << >>,
                   reset_netlist(FileLines(written), Doc).err))
    /\ IF reset_netlist(FileLines(written), Doc).err = "ok"
       THEN /\ netlist' = reset_netlist(FileLines(written), Doc).doc.netlist
            /\ circuits' = reset_netlist(FileLines(written), Doc).doc.objs
            /\ modified_subcircuits' = reset_netlist(FileLines(written), Doc).doc.modified
       ELSE UNCHANGED <<netlist, circuits, modified_subcircuits>>
    /\ UNCHANGED <<template, written>>
    /\ UNCHANGED svars
    /\ UNCHANGED stepvars
    /\ UNCHANGED monvars

\* add_instruction on a document that may be a blank one
BlankAddInstruction == AddInstructionOf(BlankInputs)

\* ------------------------------------------- SpiceCircuit objects in use
\* a sub-circuit S that declares a sub-circuit T and holds an instance of it
TemplateNested ==
    << << "*", " ", "n", "\n" >>,
       << "X", "1", " ", "a", " ", "b", " ", "S", "\n" >>,
       << ".", "s", "u", "b", "c", "k", "t", " ", "S", " ", "a", " ", "b", "\n" >>,
       << "R", "1", " ", "a", " ", "b", " ", "1", "k", "\n" >>,
       << "X", "2", " ", "a", " ", "b", " ", "T", "\n" >>,
       << ".", "s", "u", "b", "c", "k", "t", " ", "T", " ", "a", " ", "b", "\n" >>,
       << "R", "1", " ", "a", " ", "b", " ", "2", "k", "\n" >>,
       << ".", "e", "n", "d", "s", " ", "T", "\n" >>,
       << ".", "e", "n", "d", "s", " ", "S", "\n" >>,
       << ".", "e", "n", "d", "\n" >> >>

CloneNames == { << "C" >>, << "D" >> }

CloneValues == { StrVal(<< "5" >>), StrVal(<< "7" >>) }

\* the calls of clone() that returned, in order
CloneCalls == SelectSeq(calls, LAMBDA c : c.op = "clone" /\ c.err = "ok")

\* the objects clone() returned: they follow the objects of the document
Clones == (Len(circuits) - Len(CloneCalls) + 1)..Len(circuits)

\* the object the clone c was made of
ClonedFrom(c) == CloneCalls[c - (Len(circuits) - Len(CloneCalls))].val.n

\* the object o and the SpiceCircuit objects reached through the entries of
\* its list, at any depth
RECURSIVE Nodes(_, _)
Nodes(objs, o) ==
    {o} \cup UNION { Nodes(objs, objs[o][k].sub) : k \in { j \in 1..Len(objs[o]) : objs[o][j].sub # 0 } }

\* clone(new_name=...) called on a SpiceCircuit object
CloneCircuit ==
    \E o \in 1..Len(circuits), new_name \in CloneNames :
        /\ Called(Call("clone", new_name, NumVal(o), << >>, clone(circuits[o], new_name).err))
        /\ circuits' = IF clone(circuits[o], new_name).err = "ok"
                       THEN Append(circuits, clone(circuits[o], new_name).nl)
                       ELSE circuits
        /\ UNCHANGED <<template, netlist, modified_subcircuits, written>>
        /\ UNCHANGED stepvars
        /\ UNCHANGED monvars
        /\ UNCHANGED svars

\* set_component_value('R1', value) called on a clone, or on a SpiceCircuit
\* object taken from the list of a clone
SetInCloneTree ==
    \E c \in Clones, value \in CloneValues :
        \E t \in Nodes(circuits, c) :
            /\ Called(Call("set_component_value", DevR1, value, << >>,
                           circuit_set_model_and_value(circuits[t], DevR1, value).err))
            /\ circuits' = [circuits EXCEPT ![t] = circuit_set_model_and_value(circuits[t], DevR1, value).nl]
            /\ UNCHANGED <<template, netlist, modified_subcircuits, written>>
            /\ UNCHANGED stepvars
            /\ UNCHANGED monvars
            /\ UNCHANGED svars

\* ------------------------------------------------ SimStepper operations
\* sweeps registered on one SimStepper
MaxSweeps == 2

\* StepInfo(what, elem, iterable); the iterable is a tuple or a list, which
\* can be iterated again
StepInfo(what, elem, iterable) == [what |-> what, elem |-> elem, iter |-> iterable]

\* StepInfo.__len__
StepLen(step) == Len(step.iter)

\* total_number_of_simulations: "if l: total *= l"
Factor(l) == IF l # 0 THEN l ELSE 1

\* SimStepper.total_number_of_simulations, from sweep k on
RECURSIVE total_from(_, _, _)
total_from(il, k, total) ==
    IF k > Len(il) THEN total ELSE total_from(il, k + 1, total * Factor(StepLen(il[k])))

total_number_of_simulations(il) == total_from(il, 1, 1)

\* run_all: the edit made for the sweep step with the value: the document
\* and the exception raised
apply_step(doc, step, value) ==
    IF step.what = "param"
    THEN [err |-> "ok", doc |-> [doc EXCEPT !.netlist = set_parameter(doc.netlist, step.elem, value)]]
    ELSE IF step.what \in {"component", "model"}
    THEN editor_set_model_and_value(doc, step.elem, value)
    ELSE [err |-> "ValueError", doc |-> doc]

\* run_all from the test of its inner while loop on. iter_no counts from 0
\* as in the code; pos[i] is the index of the value iterators[i] gives next;
\* log holds the netlist of each "self.runner.run(self.netlist, ...)"
RECURSIVE run_all_from(_, _, _, _, _)

\* the edit for sweep iter_no was made: r
Stepped(il, r, iter_no, pos, log) ==
    IF r.err # "ok" THEN [err |-> r.err, doc |-> r.doc, launched |-> log]
    ELSE run_all_from(il, r.doc, iter_no + 1, pos, log)

run_all_from(il, doc, iter_no, pos, log) ==
    IF 0 <= iter_no /\ iter_no < Len(il)
    THEN IF pos[iter_no + 1] > Len(il[iter_no + 1].iter)
         THEN \* StopIteration: a fresh iterator, and back to the sweep before
              run_all_from(il, doc, iter_no - 1, [pos EXCEPT ![iter_no + 1] = 1], log)
         ELSE Stepped(il, apply_step(doc, il[iter_no + 1], il[iter_no + 1].iter[pos[iter_no + 1]]),
                      iter_no, [pos EXCEPT ![iter_no + 1] = @ + 1], log)
    ELSE IF iter_no < 0 THEN [err |-> "ok", doc |-> doc, launched |-> log]
    ELSE run_all_from(il, doc, Len(il) - 1, pos, Append(log, doc.netlist))

\* SimStepper.run_all on the sweeps il and the document doc
run_all(il, doc) == run_all_from(il, doc, 0, [i \in 1..Len(il) |-> 1], << >>)

\* the elements swept and the values they take
SweepValues ==
    { << >>,
      << StrVal(<< "5" >>) >>,
      << StrVal(<< "5" >>), StrVal(<< "7" >>) >> }

SweepParams == { << "X" >>, << "Z" >> }

SweepComponents == { DevR1, << "R", "9" >> }

\* add_param_sweep(param, iterable)
AddParamSweep ==
    \E param \in SweepParams, iterable \in SweepValues :
        /\ Len(iter_list) < MaxSweeps
        /\ Called(Call("add_param_sweep", param, StrVal(<< >>), << >>, "ok"))
        /\ iter_list' = Append(iter_list, StepInfo("param", param, iterable))
        /\ UNCHANGED <<template, netlist, circuits, modified_subcircuits, written, launched>>
        /\ UNCHANGED svars
        /\ UNCHANGED monvars

\* add_value_sweep(comp, iterable): get_component_value(comp) is called
\* first, and what it raises leaves iter_list as it was
AddValueSweep ==
    \E comp \in SweepComponents, iterable \in SweepValues :
        /\ Len(iter_list) < MaxSweeps
        /\ Called(Call("add_value_sweep", comp, StrVal(<< >>), << >>, get_component_value(netlist, comp).err))
        /\ iter_list' = IF get_component_value(netlist, comp).err = "ok"
                        THEN Append(iter_list, StepInfo("component", comp, iterable))
                        ELSE iter_list
        /\ UNCHANGED <<template, netlist, circuits, modified_subcircuits, written, launched>>
        /\ UNCHANGED svars
        /\ UNCHANGED monvars

\* run_all(): the runner is any object with a run method; the netlist it is
\* handed at each call is recorded
RunAll ==
    /\ Called(Call("run_all", << >>, StrVal(<< >>), << >>, run_all(iter_list, Doc).err))
    /\ netlist' = run_all(iter_list, Doc).doc.netlist
    /\ circuits' = run_all(iter_list, Doc).doc.objs
    /\ modified_subcircuits' = run_all(iter_list, Doc).doc.modified
    /\ launched' = launched \o run_all(iter_list, Doc).launched
    /\ UNCHANGED <<template, written, iter_list>>
    /\ UNCHANGED svars
    /\ UNCHANGED monvars

\* ------------------------------------------------- SimRunner operations

\* the parameters and values the caller passes
SetParameterInputs ==
    { << << "X" >>, StrVal(<< "5" >>) >>,
      << << "X" >>, NumVal(40) >>,
      << << "Y" >>, StrVal(<< "7", "k" >>) >>,
      << << "Z" >>, StrVal(<< "{", "X", "}" >>) >> }

GetParameterInputs == { << "X" >>, << "Y" >>, << "Z" >>, << "W" >> }

\* set_parameter(param, value)
SetParameter ==
    \E a \in SetParameterInputs :
        /\ Called(Call("set_parameter", a[1], a[2], << >>, "ok"))
        /\ netlist' = set_parameter(netlist, a[1], a[2])
        /\ UNCHANGED <<template, circuits, modified_subcircuits, written>>
        /\ UNCHANGED svars
        /\ UNCHANGED stepvars
        /\ UNCHANGED monvars

\* get_parameter(param)
GetParameter ==
    \E param \in GetParameterInputs :
        /\ Called(Call("get_parameter", param, StrVal(<< >>),
                       get_parameter(netlist, param).val, get_parameter(netlist, param).err))
        /\ UNCHANGED <<template, netlist, circuits, modified_subcircuits, written>>
        /\ UNCHANGED svars
        /\ UNCHANGED stepvars
        /\ UNCHANGED monvars

\* ---- file names: a str or a Path without directories is its characters
\* index of the last c in s, 0 when there is none
LastIndexOf(s, c) ==
    IF \E i \in 1..Len(s) : s[i] = c
    THEN CHOOSE i \in 1..Len(s) : s[i] = c /\ \A j \in (i + 1)..Len(s) : s[j] # c
    ELSE 0

\* Path.suffix: from the last dot on, unless the name starts or ends with it
suffix(p) ==
    LET i == LastIndexOf(p, ".")
    IN  IF i > 1 /\ i < Len(p) THEN SubSeq(p, i, Len(p)) ELSE << >>

\* Path.stem
stem(p) == SubSeq(p, 1, Len(p) - Len(suffix(p)))

\* Path.with_suffix
with_suffix(p, suf) == stem(p) \o suf

DotNet == << ".", "n", "e", "t" >>

\* "%i" of a run number
FormatInt(n) == DigitsOf(n)

\* run_filename=None
NoneName == << >>

\* SpiceEditor.circuit_file of the editor handed to run() and run_now()
circuit_file == << "t", ".", "n", "e", "t" >>

\* _run_file_name: the result of "with_suffix('.net')" is dropped
KeptName(p) == p

\* SimRunner._run_file_name for an editor
run_file_name(netlist_path, run_filename, rno) ==
    IF run_filename = NoneName
    THEN stem(KeptName(netlist_path)) \o << "_" >> \o FormatInt(rno)
             \o suffix(KeptName(netlist_path))
    ELSE KeptName(run_filename)

\* SimRunner._prepare_sim for an editor, output_folder=None, after the run
\* number is incremented: the name returned, and the name of the file that
\* SpiceEditor.write_netlist opens ("run_netlist_file.with_suffix('.net')")
prepare_sim(run_filename, rno) ==
    [run_netlist_file |-> run_file_name(circuit_file, run_filename, rno),
     written_file |-> with_suffix(run_file_name(circuit_file, run_filename, rno), DotNet)]

\* ---- callbacks: None, or a callable with the names of its parameters
NoneCallback == [none |-> TRUE, args |-> << >>]

Callback(args) == [none |-> FALSE, args |-> args]

\* callback_args: None, a tuple of n values, or a dict with the given keys
NoArgs == [kind |-> "None", names |-> {}, n |-> 0]

TupleArgs(n) == [kind |-> "tuple", names |-> {}, n |-> n]

DictArgs(names) == [kind |-> "dict", names |-> names, n |-> Cardinality(names)]

\* what validate_callback_args returns: None, or the keyword names
NoKwargs == [none |-> TRUE, names |-> {}]

Kwargs(names) == [none |-> FALSE, names |-> names]

\* the mutation of validate_callback_args below: nothing is validated
NoValidation(callback, callback_args) == [err |-> "ok", kwargs |-> NoKwargs]

\* SimRunner.validate_callback_args: the exception raised ("ok": none) and
\* the value returned
validate_callback_args(callback, callback_args) ==
    IF callback.none THEN [err |-> "ok", kwargs |-> NoKwargs]
    ELSE IF Len(callback.args) < 2 THEN [err |-> "ValueError", kwargs |-> NoKwargs]
    ELSE IF Len(callback.args) > 2
    THEN IF callback_args.kind = "None" THEN [err |-> "ValueError", kwargs |-> NoKwargs]
         ELSE IF /\ callback_args.kind = "dict"
                 /\ \E pos \in 3..Len(callback.args) : callback.args[pos] \notin callback_args.names
         THEN [err |-> "ValueError", kwargs |-> NoKwargs]
         ELSE IF Len(callback.args) - 2 # callback_args.n
         THEN [err |-> "ValueError", kwargs |-> NoKwargs]
         ELSE IF callback_args.kind = "tuple"
         THEN [err |-> "ok", kwargs |-> Kwargs({callback.args[pos] : pos \in 3..Len(callback.args)})]
         ELSE [err |-> "ok", kwargs |-> Kwargs(callback_args.names)]
    ELSE [err |-> "ok", kwargs |-> NoKwargs]

\* the callbacks and callback_args the caller passes
CallbackInputs ==
    { << NoneCallback, NoArgs >>,
      << Callback(<< "raw" >>), NoArgs >>,
      << Callback(<< "raw", "log" >>), TupleArgs(1) >>,
      << Callback(<< "raw", "log", "x" >>), NoArgs >>,
      << Callback(<< "raw", "log", "x" >>), TupleArgs(1) >>,
      << Callback(<< "raw", "log", "x" >>), TupleArgs(2) >>,
      << Callback(<< "raw", "log", "x" >>), DictArgs({"x"}) >>,
      << Callback(<< "raw", "log", "x" >>), DictArgs({"y"}) >>,
      << Callback(<< "raw", "log", "x" >>), DictArgs({"x", "y"}) >> }

\* a callback that is accepted and one that is not
FewCallbackInputs ==
    { << NoneCallback, NoArgs >>, << Callback(<< "raw" >>), NoArgs >> }

\* the run_filename arguments the caller passes
RunFilenameInputs ==
    { NoneName, << "a", ".", "n", "e", "t" >>, << "a", ".", "t", "x", "t" >> }

\* _prepare_sim: "self.runno += 1"
RunnoDoubleStep(r) == r + 2
RunnoKept(r) == r
NextRunno(r) == r + 1

\* update_completed: "if self.active_tasks[i].retcode == 0" counts a success
IsSuccessNotOne(rc) == rc # 1
IsSuccess(rc) == rc = 0

\* update_completed: "self.completed_tasks.append(task)"
MoveToCompletedDropped(comp, t) == comp
MoveToCompletedFirst(comp, t) == << t >> \o comp
MoveToCompleted(comp, t) == Append(comp, t)

\* run(): "self.active_threads() < self.parallel_sims"
HasFreeSlotOffByOne(n) == n <= parallel_sims
HasFreeSlot(n) == n < parallel_sims

\* run(): "while clock() - t0 < timeout + 1" without its second of slack
WithinWaitNoSlack(el, tout) == el < tout
\* run(): "while clock() - t0 < timeout + 1"
WithinWait(el, tout) == el < tout + 1

\* update_completed: the while loop from index i on, over the lists and counters
RECURSIVE update_from(_, _, _, _, _)
update_from(i, act, comp, ok, fail) ==
    IF i > Len(act)
    THEN [active |-> act, completed |-> comp, ok |-> ok, fail |-> fail]
    ELSE IF tasks[act[i]].alive
         THEN update_from(i + 1, act, comp, ok, fail)
         ELSE update_from(i, Pop(act, i), MoveToCompleted(comp, act[i]),
                          IF IsSuccess(tasks[act[i]].retcode) THEN ok + 1 ELSE ok,
                          IF IsSuccess(tasks[act[i]].retcode) THEN fail ELSE fail + 1)

update_completed(act, comp, ok, fail) == update_from(1, act, comp, ok, fail)

\* the scheduler's lists and counters after update_completed()
Updated == update_completed(active_tasks, completed_tasks, okSim, failSim)

RECURSIVE max_stop_from(_, _, _)
max_stop_from(i, act, alarm) ==
    IF i > Len(act) THEN alarm
    ELSE LET task == tasks[act[i]]
             tout == IF task.timeout # NoneT THEN task.timeout ELSE timeout
         IN  IF tout # NoneT
             THEN LET stop == task.start_time + tout
                  IN  max_stop_from(i + 1, act,
                                    IF alarm = NoneT THEN stop
                                    ELSE IF stop > alarm THEN stop ELSE alarm)
             ELSE max_stop_from(i + 1, act, alarm)

\* the mutation of maximum_stop_time below: no deadline is found
NoStopTime(act) == NoneT

\* _maximum_stop_time over the given active list
maximum_stop_time(act) == max_stop_from(1, act, NoneT)

\* the locals of run() and wait_completion() when no such call is in progress
NoRunLocals ==
    wait_resource' = TRUE /\ run_timeout' = NoneT /\ elapsed' = 0 /\ run_netlist_file' = <<>>
NoWaitLocals == stop_time' = NoneT /\ wc_timeout' = NoneT

\* the threads that call update_completed on the SimRunner of a
\* ServerSimRunner: its own run() loop, and the caller of add_simulation
Threads == {"monitor", "caller"}

\* a thread at the statement p, with its locals
At(p, i, task) == [pc |-> p, i |-> i, task |-> task]

\* SimStepper.__init__: no sweep is registered; ServerSimRunner.__init__:
\* no thread is inside a call
StepperInit ==
    /\ iter_list = << >>
    /\ launched = << >>
    /\ uc = [t \in Threads |-> At("idle", 0, 0)]
    /\ srv_completed = << >>
    /\ counts = << >>
    /\ moves = << >>

SchedInit ==
    /\ parallel_sims \in ParallelInputs
    /\ timeout \in TimeoutInputs
    /\ active_tasks = <<>>
    /\ completed_tasks = <<>>
    /\ iterator_counter = 0
    /\ runno = 0
    /\ okSim = 0
    /\ failSim = 0
    /\ tasks = <<>>
    /\ now = 0
    /\ pc = "idle"
    /\ wait_resource = TRUE
    /\ run_timeout = NoneT
    /\ elapsed = 0
    /\ stop_time = NoneT
    /\ wc_timeout = NoneT
    /\ result = [op |-> "init", val |-> "None"]
    /\ refused = 0
    /\ all_started = TRUE
    /\ yielded = <<>>
    /\ files = {}
    /\ run_netlist_file = <<>>

\* run() up to the first test of the while loop: callback validation,
\* _prepare_sim (the run number, the file written by the editor), defaulting
\* of timeout, t0 = clock(). WR, CB, RF: the values of wait_resource, of
\* (callback, callback_args) and of run_filename the caller uses. The result
\* of the step keeps the callback arguments of the call.
RunBeginWith(WR, CB, RF) ==
    /\ pc = "idle"
    /\ runno < MaxRuns
    /\ \E cb \in CB, wr \in WR, t \in TimeoutInputs, rf \in RF :
        IF validate_callback_args(cb[1], cb[2]).err # "ok"
        THEN \* validate_callback_args raises before anything else happens
             /\ result' = [op |-> "run", val |-> validate_callback_args(cb[1], cb[2]).err,
                           callback |-> cb[1], callback_args |-> cb[2]]
             /\ all_started' = FALSE
             /\ UNCHANGED <<runno, pc, wait_resource, run_timeout, elapsed, files,
                            run_netlist_file, written>>
        ELSE LET tt == IF t = NoneT THEN timeout ELSE t IN
             /\ runno' = NextRunno(runno)
             /\ files' = files \cup {prepare_sim(rf, runno').written_file}
             /\ written' = write_netlist(Doc, 1)
             /\ IF tt = NoneT
                THEN \* "timeout + 1" with timeout None raises TypeError
                     /\ result' = [op |-> "run", val |-> "TypeError",
                                   callback |-> cb[1], callback_args |-> cb[2]]
                     /\ all_started' = FALSE
                     /\ UNCHANGED <<pc, wait_resource, run_timeout, elapsed, run_netlist_file>>
                ELSE /\ pc' = "run_wait"
                     /\ wait_resource' = wr
                     /\ run_timeout' = tt
                     /\ elapsed' = 0
                     /\ run_netlist_file' = prepare_sim(rf, runno').run_netlist_file
                     /\ result' = [op |-> "run", val |-> "pending",
                                   callback |-> cb[1], callback_args |-> cb[2]]
                     /\ UNCHANGED all_started
    /\ UNCHANGED <<parallel_sims, timeout, active_tasks, completed_tasks, iterator_counter,
                   okSim, failSim, tasks, now, stop_time, wc_timeout, refused, yielded>>
    /\ UNCHANGED <<template, netlist, modified_subcircuits, circuits, calls>>
    /\ UNCHANGED stepvars
    /\ UNCHANGED monvars

RunBegin == RunBeginWith(BOOLEAN, FewCallbackInputs, {NoneName})

\* one pass of run()'s while loop, and its else branch when the wait is over
RunPoll ==
    /\ pc = "run_wait"
    /\ IF WithinWait(elapsed, run_timeout)
       THEN LET u == IF wait_resource THEN Updated
                     ELSE [active |-> active_tasks, completed |-> completed_tasks,
                           ok |-> okSim, fail |-> failSim]
                key == Len(tasks) + 1
            IN  /\ completed_tasks' = u.completed
                /\ okSim' = u.ok
                /\ failSim' = u.fail
                /\ IF (~wait_resource) \/ HasFreeSlot(Len(u.active))
                   THEN /\ tasks' = Append(tasks, NewTask(runno, timeout, run_netlist_file))
                        /\ active_tasks' = Append(u.active, key)
                        /\ result' = [op |-> "run", val |-> "started"]
                        /\ pc' = "idle"
                        /\ NoRunLocals
                   ELSE \* sleep(0.1) and go round again
                        /\ active_tasks' = u.active
                        /\ result' = [op |-> "run", val |-> "waiting"]
                        /\ UNCHANGED <<tasks, pc, wait_resource, run_timeout, elapsed,
                                       run_netlist_file>>
                /\ UNCHANGED <<refused, all_started>>
       ELSE /\ result' = [op |-> "run", val |-> "None"]
            /\ refused' = refused + 1
            /\ all_started' = FALSE
            /\ pc' = "idle"
            /\ NoRunLocals
            /\ UNCHANGED <<active_tasks, completed_tasks, okSim, failSim, tasks>>
    /\ UNCHANGED <<parallel_sims, timeout, iterator_counter, runno, now, stop_time, wc_timeout>>
    /\ UNCHANGED <<yielded, files>>
    /\ UNCHANGED evars
    /\ UNCHANGED stepvars
    /\ UNCHANGED monvars

\* the values run() hands back: the task object it started (tasks[key]), or
\* "return t.raw_file, t.log_file", a tuple of two fields of that task, or None
ReturnedTask(key) == [kind |-> "RunTask", task |-> key]

ReturnedFiles(key) == [kind |-> "tuple", task |-> key]

ReturnedNone == [kind |-> "None", task |-> 0]

\* what the run() call that ended last returned: the start is the last
\* statement before "return t.raw_file, t.log_file", the refusal the one
\* before "return None"
run_returned ==
    IF result = [op |-> "run", val |-> "started"] THEN ReturnedFiles(Len(tasks))
    ELSE ReturnedNone

\* the thread clock read by run() advances as run() goes round its loop: t0 is
\* read right before the first test, so the first pass is always made
RunClock ==
    /\ pc = "run_wait"
    /\ result.val = "waiting"
    /\ WithinWait(elapsed, run_timeout)
    /\ elapsed' = elapsed + 1
    /\ UNCHANGED <<parallel_sims, timeout, active_tasks, completed_tasks, iterator_counter,
                   runno, okSim, failSim, tasks, now, pc, wait_resource, run_timeout,
                   stop_time, wc_timeout, result, refused, all_started>>
    /\ UNCHANGED <<yielded, files, run_netlist_file>>
    /\ UNCHANGED evars
    /\ UNCHANGED stepvars
    /\ UNCHANGED monvars

\* run_now(): _prepare_sim, then the task is started and joined; rc is the
\* return code the simulation ended with (0 - 1: it was stopped on its
\* timeout, the code never set). With no timeout anywhere
\* "t.join(timeout + 1)" raises TypeError after t.start(): that task is
\* referenced by no field of the SimRunner. RF: the values of run_filename.
RunNowWith(RF) ==
    /\ pc = "idle"
    /\ runno < MaxRuns
    /\ \E t \in TimeoutInputs, rc \in {0, 1, 0 - 1}, rf \in RF :
        LET tt == IF t = NoneT THEN timeout ELSE t
            key == Len(tasks) + 1
            rno == NextRunno(runno)
        IN  /\ runno' = rno
            /\ files' = files \cup {prepare_sim(rf, rno).written_file}
            /\ written' = write_netlist(Doc, 1)
            /\ IF tt = NoneT
               THEN /\ result' = [op |-> "run_now", val |-> "TypeError"]
                    /\ UNCHANGED <<tasks, completed_tasks, okSim, failSim>>
               ELSE /\ tasks' = Append(tasks,
                                       [NewTask(rno, tt, prepare_sim(rf, rno).run_netlist_file)
                                            EXCEPT !.alive = FALSE, !.retcode = rc])
                    /\ completed_tasks' = Append(completed_tasks, key)
                    /\ okSim' = IF IsSuccess(rc) THEN okSim + 1 ELSE okSim
                    /\ failSim' = IF IsSuccess(rc) THEN failSim ELSE failSim + 1
                    /\ result' = [op |-> "run_now", val |-> "started"]
    /\ all_started' = FALSE
    /\ UNCHANGED <<parallel_sims, timeout, active_tasks, iterator_counter, now, pc,
                   wait_resource, run_timeout, elapsed, stop_time, wc_timeout, refused,
                   yielded, run_netlist_file>>
    /\ UNCHANGED <<template, netlist, modified_subcircuits, circuits, calls>>
    /\ UNCHANGED stepvars
    /\ UNCHANGED monvars

RunNow == RunNowWith({NoneName})

\* a direct call of update_completed()
UpdateCompleted ==
    /\ pc = "idle"
    /\ active_tasks' = Updated.active
    /\ completed_tasks' = Updated.completed
    /\ okSim' = Updated.ok
    /\ failSim' = Updated.fail
    /\ result' = [op |-> "update_completed", val |-> "None"]
    /\ UNCHANGED <<parallel_sims, timeout, iterator_counter, runno, tasks, now, pc,
                   wait_resource, run_timeout, elapsed, stop_time, wc_timeout, refused, all_started>>
    /\ UNCHANGED <<yielded, files, run_netlist_file>>
    /\ UNCHANGED evars
    /\ UNCHANGED stepvars
    /\ UNCHANGED monvars

\* wait_completion() up to the first test of its while loop
WaitBegin ==
    /\ pc = "idle"
    /\ \E t \in TimeoutInputs :
        /\ wc_timeout' = t
        /\ stop_time' = IF t # NoneT THEN now + t ELSE NoneT
    /\ active_tasks' = Updated.active
    /\ completed_tasks' = Updated.completed
    /\ okSim' = Updated.ok
    /\ failSim' = Updated.fail
    /\ pc' = "wc_test"
    /\ result' = [op |-> "wait_completion", val |-> "pending"]
    /\ UNCHANGED <<parallel_sims, timeout, iterator_counter, runno, tasks, now,
                   wait_resource, run_timeout, elapsed, refused, all_started>>
    /\ UNCHANGED <<yielded, files, run_netlist_file>>
    /\ UNCHANGED evars
    /\ UNCHANGED stepvars
    /\ UNCHANGED monvars

\* "while len(self.active_tasks) > 0": leave with failSim == 0, or sleep(1)
WaitTest ==
    /\ pc = "wc_test"
    /\ IF Len(active_tasks) > 0
       THEN /\ pc' = "wc_sleep"
            /\ UNCHANGED <<result, stop_time, wc_timeout>>
       ELSE /\ pc' = "idle"
            /\ result' = [op |-> "wait_completion", val |-> IF failSim = 0 THEN "True" ELSE "False"]
            /\ NoWaitLocals
    /\ UNCHANGED <<parallel_sims, timeout, active_tasks, completed_tasks, iterator_counter,
                   runno, okSim, failSim, tasks, now, wait_resource, run_timeout,
                   elapsed, refused, all_started>>
    /\ UNCHANGED <<yielded, files, run_netlist_file>>
    /\ UNCHANGED evars
    /\ UNCHANGED stepvars
    /\ UNCHANGED monvars

\* after sleep(1): update_completed(), the deadline, and its test.
\* kill_all_ltspice() acts on operating-system processes only: no field of the
\* SimRunner or of a task is written by it.
WaitWake ==
    /\ pc = "wc_sleep"
    /\ LET u == Updated
           st == IF wc_timeout = NoneT THEN maximum_stop_time(u.active) ELSE stop_time
       IN  /\ active_tasks' = u.active
           /\ completed_tasks' = u.completed
           /\ okSim' = u.ok
           /\ failSim' = u.fail
           /\ IF st # NoneT /\ now > st
              THEN /\ pc' = "idle"
                   /\ result' = [op |-> "wait_completion", val |-> "False"]
                   /\ NoWaitLocals
              ELSE /\ pc' = "wc_test"
                   /\ stop_time' = st
                   /\ UNCHANGED <<result, wc_timeout>>
    /\ UNCHANGED <<parallel_sims, timeout, iterator_counter, runno, tasks, now,
                   wait_resource, run_timeout, elapsed, refused, all_started>>
    /\ UNCHANGED <<yielded, files, run_netlist_file>>
    /\ UNCHANGED evars
    /\ UNCHANGED stepvars
    /\ UNCHANGED monvars

\* __iter__
Iter ==
    /\ pc = "idle"
    /\ iterator_counter' = 0
    /\ yielded' = <<>>
    /\ UNCHANGED <<files, run_netlist_file>>
    /\ result' = [op |-> "iter", val |-> "None"]
    /\ UNCHANGED <<parallel_sims, timeout, active_tasks, completed_tasks, runno, okSim,
                   failSim, tasks, now, pc, wait_resource, run_timeout, elapsed,
                   stop_time, wc_timeout, refused, all_started>>
    /\ UNCHANGED evars
    /\ UNCHANGED stepvars
    /\ UNCHANGED monvars

\* __next__: "ret = self.completed_tasks[self._iterator_counter]" (0-based)
NextResult(comp, i) == comp[i + 1]

\* one pass of __next__'s while loop
Next_ ==
    /\ pc \in {"idle", "next_sleep"}
    /\ LET u == Updated
           st == maximum_stop_time(u.active)
       IN  /\ active_tasks' = u.active
           /\ completed_tasks' = u.completed
           /\ okSim' = u.ok
           /\ failSim' = u.fail
           /\ IF iterator_counter < Len(u.completed)
              THEN /\ iterator_counter' = iterator_counter + 1
                   /\ yielded' = Append(yielded, NextResult(u.completed, iterator_counter))
                   /\ result' = [op |-> "next", val |-> "result"]
                   /\ pc' = "idle"
              ELSE IF Len(u.active) = 0
              THEN /\ result' = [op |-> "next", val |-> "StopIteration"]
                   /\ pc' = "idle"
                   /\ UNCHANGED <<iterator_counter, yielded>>
              ELSE IF st # NoneT /\ now > st
              THEN /\ result' = [op |-> "next", val |-> "SimRunnerTimeoutError"]
                   /\ pc' = "idle"
                   /\ UNCHANGED <<iterator_counter, yielded>>
              ELSE \* sleep(0.2) and go round again
                   /\ pc' = "next_sleep"
                   /\ result' = [op |-> "next", val |-> "pending"]
                   /\ UNCHANGED <<iterator_counter, yielded>>
    /\ UNCHANGED <<parallel_sims, timeout, runno, tasks, now, wait_resource, run_timeout,
                   elapsed, stop_time, wc_timeout, refused, all_started, files, run_netlist_file>>
    /\ UNCHANGED evars
    /\ UNCHANGED stepvars
    /\ UNCHANGED monvars

\* ------------------------------------------------ ServerSimRunner
\* add_simulation: "timeout: float = 600"
SrvTimeout == 600

\* what a step of a thread leaves alone besides the lists it works on
SrvFrame ==
    /\ UNCHANGED <<parallel_sims, timeout, iterator_counter, now, pc, wait_resource, run_timeout,
                   elapsed, stop_time, wc_timeout, result, refused, all_started, yielded,
                   run_netlist_file>>
    /\ UNCHANGED <<template, netlist, modified_subcircuits, circuits, calls>>
    /\ UNCHANGED stepvars

\* add_simulation(netlist) in the caller thread: run() validates the
\* callback zip_files, _prepare_sim takes a run number and writes the
\* netlist, and the while loop calls active_threads(), which enters
\* update_completed with "i = 0"
SrvAddSimulation ==
    /\ uc["caller"].pc = "idle"
    /\ runno < MaxRuns
    /\ runno' = NextRunno(runno)
    /\ files' = files \cup {prepare_sim(NoneName, runno').written_file}
    /\ written' = write_netlist(Doc, 1)
    /\ uc' = [uc EXCEPT !["caller"] = At("test", 0, 0)]
    /\ UNCHANGED <<active_tasks, completed_tasks, okSim, failSim, tasks, srv_completed, counts, moves>>
    /\ SrvFrame

\* ServerSimRunner.run in the monitor thread: "self.runner.update_completed()"
MonitorPass ==
    /\ uc["monitor"].pc = "idle"
    /\ uc' = [uc EXCEPT !["monitor"] = At("test", 0, 0)]
    /\ UNCHANGED <<active_tasks, completed_tasks, okSim, failSim, tasks, runno, files, written,
                   srv_completed, counts, moves>>
    /\ SrvFrame

\* update_completed: "while i < len(self.active_tasks)"
UcTest ==
    \E t \in Threads :
        /\ uc[t].pc = "test"
        /\ uc' = [uc EXCEPT ![t].pc = IF uc[t].i < Len(active_tasks) THEN "alive" ELSE "done"]
        /\ UNCHANGED <<active_tasks, completed_tasks, okSim, failSim, tasks, runno, files, written,
                       srv_completed, counts, moves>>
        /\ SrvFrame

\* update_completed: "if self.active_tasks[i].is_alive(): i += 1"; the list
\* may be shorter than when the loop test read it (IndexError)
UcAlive ==
    \E t \in Threads :
        /\ uc[t].pc = "alive"
        /\ uc' = [uc EXCEPT ![t] =
                    IF uc[t].i >= Len(active_tasks) THEN At("IndexError", uc[t].i, 0)
                    ELSE IF tasks[active_tasks[uc[t].i + 1]].alive THEN At("test", uc[t].i + 1, 0)
                    ELSE At("count", uc[t].i, 0)]
        /\ UNCHANGED <<active_tasks, completed_tasks, okSim, failSim, tasks, runno, files, written,
                       srv_completed, counts, moves>>
        /\ SrvFrame

\* update_completed: "if self.active_tasks[i].retcode == 0: self.okSim += 1
\* else: self.failSim += 1", on the task that is at index i now
UcCount ==
    \E t \in Threads :
        /\ uc[t].pc = "count"
        /\ IF uc[t].i >= Len(active_tasks)
           THEN /\ uc' = [uc EXCEPT ![t] = At("IndexError", uc[t].i, 0)]
                /\ UNCHANGED <<okSim, failSim, counts>>
           ELSE /\ uc' = [uc EXCEPT ![t].pc = "pop"]
                /\ okSim' = IF IsSuccess(tasks[active_tasks[uc[t].i + 1]].retcode) THEN okSim + 1 ELSE okSim
                /\ failSim' = IF IsSuccess(tasks[active_tasks[uc[t].i + 1]].retcode) THEN failSim ELSE failSim + 1
                /\ counts' = Append(counts, active_tasks[uc[t].i + 1])
        /\ UNCHANGED <<active_tasks, completed_tasks, tasks, runno, files, written, srv_completed, moves>>
        /\ SrvFrame

\* update_completed: "task = self.active_tasks.pop(i)", the task that is at
\* index i now
UcPop ==
    \E t \in Threads :
        /\ uc[t].pc = "pop"
        /\ IF uc[t].i >= Len(active_tasks)
           THEN /\ uc' = [uc EXCEPT ![t] = At("IndexError", uc[t].i, 0)]
                /\ UNCHANGED active_tasks
           ELSE /\ uc' = [uc EXCEPT ![t] = At("append", uc[t].i, active_tasks[uc[t].i + 1])]
                /\ active_tasks' = Pop(active_tasks, uc[t].i + 1)
        /\ UNCHANGED <<completed_tasks, okSim, failSim, tasks, runno, files, written,
                       srv_completed, counts, moves>>
        /\ SrvFrame

\* update_completed: "self.completed_tasks.append(task)"
UcAppend ==
    \E t \in Threads :
        /\ uc[t].pc = "append"
        /\ completed_tasks' = MoveToCompleted(completed_tasks, uc[t].task)
        /\ moves' = Append(moves, [task |-> uc[t].task, alive |-> tasks[uc[t].task].alive])
        /\ uc' = [uc EXCEPT ![t] = At("test", uc[t].i, 0)]
        /\ UNCHANGED <<active_tasks, okSim, failSim, tasks, runno, files, written, srv_completed, counts>>
        /\ SrvFrame

\* run() in the caller thread after active_threads() returned
\* len(self.active_tasks): the task is started when a slot is free,
\* otherwise sleep(0.1) and active_threads() again
SrvRunSlot ==
    /\ uc["caller"].pc = "done"
    /\ IF HasFreeSlot(Len(active_tasks))
       THEN /\ tasks' = Append(tasks, NewTask(runno, SrvTimeout, prepare_sim(NoneName, runno).run_netlist_file))
            /\ active_tasks' = Append(active_tasks, Len(tasks) + 1)
            /\ uc' = [uc EXCEPT !["caller"] = At("idle", 0, 0)]
       ELSE /\ uc' = [uc EXCEPT !["caller"] = At("test", 0, 0)]
            /\ UNCHANGED <<tasks, active_tasks>>
    /\ UNCHANGED <<completed_tasks, okSim, failSim, runno, files, written, srv_completed, counts, moves>>
    /\ SrvFrame

\* ServerSimRunner.run in the monitor thread after update_completed():
\* "task = self.runner.completed_tasks.pop(0)" while there is one, then
\* sleep(0.2)
MonitorDrain ==
    /\ uc["monitor"].pc = "done"
    /\ IF Len(completed_tasks) > 0
       THEN /\ completed_tasks' = Tail(completed_tasks)
            /\ srv_completed' = Append(srv_completed, Head(completed_tasks))
            /\ UNCHANGED uc
       ELSE /\ uc' = [uc EXCEPT !["monitor"] = At("idle", 0, 0)]
            /\ UNCHANGED <<completed_tasks, srv_completed>>
    /\ UNCHANGED <<active_tasks, okSim, failSim, tasks, runno, files, written, counts, moves>>
    /\ SrvFrame

\* ------------------------------------------------ the environment
\* a simulator process exits with return code rc and its thread ends
TaskExit ==
    \E k \in 1..Len(tasks), rc \in {0, 1} :
        /\ tasks[k].alive
        /\ tasks' = [tasks EXCEPT ![k].alive = FALSE, ![k].retcode = rc]
        /\ UNCHANGED <<parallel_sims, timeout, active_tasks, completed_tasks,
                       iterator_counter, runno, okSim, failSim, now, pc, wait_resource,
                       run_timeout, elapsed, stop_time, wc_timeout, result, refused, all_started>>
    /\ UNCHANGED <<yielded, files, run_netlist_file>>
    /\ UNCHANGED evars
    /\ UNCHANGED stepvars
    /\ UNCHANGED monvars

\* a simulator process is stopped on its timeout: the thread ends, the return
\* code keeps its initial value
TaskTimeout ==
    \E k \in 1..Len(tasks) :
        /\ tasks[k].alive
        /\ tasks[k].timeout # NoneT
        /\ now >= tasks[k].start_time + tasks[k].timeout
        /\ tasks' = [tasks EXCEPT ![k].alive = FALSE]
        /\ UNCHANGED <<parallel_sims, timeout, active_tasks, completed_tasks,
                       iterator_counter, runno, okSim, failSim, now, pc, wait_resource,
                       run_timeout, elapsed, stop_time, wc_timeout, result, refused, all_started>>
    /\ UNCHANGED <<yielded, files, run_netlist_file>>
    /\ UNCHANGED evars
    /\ UNCHANGED stepvars
    /\ UNCHANGED monvars

Tick ==
    /\ now < MaxTime
    /\ now' = now + 1
    /\ UNCHANGED <<parallel_sims, timeout, active_tasks, completed_tasks, iterator_counter,
                   runno, okSim, failSim, tasks, pc, wait_resource, run_timeout,
                   elapsed, stop_time, wc_timeout, result, refused, all_started>>
    /\ UNCHANGED <<yielded, files, run_netlist_file>>
    /\ UNCHANGED evars
    /\ UNCHANGED stepvars
    /\ UNCHANGED monvars

\* ------------------------------------------------ specifications
\* a SimRunner, next to an editor that nobody calls
Init == SchedInit /\ StepperInit /\ EditorInit({TemplateShared})

Next ==
    \/ RunBegin
    \/ RunPoll
    \/ RunClock
    \/ RunNow
    \/ UpdateCompleted
    \/ WaitBegin
    \/ WaitTest
    \/ WaitWake
    \/ Iter
    \/ Next_
    \/ TaskExit
    \/ TaskTimeout
    \/ Tick

Spec == Init /\ [][Next]_vars

\* the same caller when its thread keeps running and the clock keeps
\* advancing: a wait_completion() call in progress makes its next test
\* (the loop of sim_runner.py:526-535 sleeps one second and goes on), and
\* time passes; no simulator process is required to ever exit
SpecLive ==
    /\ Init
    /\ [][Next]_vars
    /\ WF_vars(WaitTest)
    /\ WF_vars(WaitWake)
    /\ WF_vars(Tick)

\* the same caller when every run() call is made with wait_resource=True
NextWait ==
    \/ RunBeginWith({TRUE}, FewCallbackInputs, {NoneName})
    \/ RunPoll
    \/ RunClock
    \/ RunNow
    \/ UpdateCompleted
    \/ WaitBegin
    \/ WaitTest
    \/ WaitWake
    \/ Iter
    \/ Next_
    \/ TaskExit
    \/ TaskTimeout
    \/ Tick

SpecWait == Init /\ [][NextWait]_vars

\* one caller launching simulations of an editor's netlist with any of the
\* callbacks and run_filename arguments, and polling for their completion
NextRun ==
    \/ RunBeginWith(BOOLEAN, CallbackInputs, RunFilenameInputs)
    \/ RunPoll
    \/ RunClock
    \/ RunNowWith(RunFilenameInputs)
    \/ UpdateCompleted
    \/ TaskExit

SpecRun == Init /\ [][NextRun]_vars

\* one caller driving one SpiceEditor, next to a SimRunner that nobody calls
InitEdit ==
    /\ SchedInit
    /\ StepperInit
    /\ parallel_sims = 1
    /\ timeout = NoneT
    /\ EditorInit(Templates)

NextEdit ==
    \/ SetComponentValue
    \/ GetComponentValue
    \/ AddInstruction
    \/ ResetNetlist
    \/ WriteNetlist

SpecEdit == InitEdit /\ [][NextEdit]_vars

\* one caller adding and removing the directives of a SpiceEditor
InitDirective ==
    /\ SchedInit
    /\ StepperInit
    /\ parallel_sims = 1
    /\ timeout = NoneT
    /\ EditorInit(Templates)

NextDirective ==
    \/ AddInstruction
    \/ RemoveInstruction

SpecDirective == InitDirective /\ [][NextDirective]_vars

\* one caller cloning the sub-circuits of a document and editing the clones
InitClone ==
    /\ SchedInit
    /\ StepperInit
    /\ parallel_sims = 1
    /\ timeout = NoneT
    /\ EditorInit({TemplateNested})

NextClone ==
    \/ CloneCircuit
    \/ SetInCloneTree

SpecClone == InitClone /\ [][NextClone]_vars

\* one caller editing inside the instances of TemplateNames and writing
InitNames ==
    /\ SchedInit
    /\ StepperInit
    /\ parallel_sims = 1
    /\ timeout = NoneT
    /\ EditorInit({TemplateNames})

NextNames ==
    \/ NamesSetComponentValue
    \/ WriteNetlist

SpecNames == InitNames /\ [][NextNames]_vars

\* one caller editing twice and more inside the instances of a document
InitReuse ==
    /\ SchedInit
    /\ StepperInit
    /\ parallel_sims = 1
    /\ timeout = NoneT
    /\ EditorInit({TemplateTwo, TemplateNested})

NextReuse == ReuseSetComponentValue

SpecReuse == InitReuse /\ [][NextReuse]_vars

\* one caller editing inside instances, adding directives and writing
InitWrite ==
    /\ SchedInit
    /\ StepperInit
    /\ parallel_sims = 1
    /\ timeout = NoneT
    /\ EditorInit({TemplateShared, TemplateIndented})

NextWrite ==
    \/ WriteSetComponentValue
    \/ AddEndDirective
    \/ WriteNetlist

SpecWrite == InitWrite /\ [][NextWrite]_vars

\* a ServerSimRunner: its monitor thread, one caller of add_simulation,
\* and the simulator processes
InitServer == SchedInit /\ StepperInit /\ EditorInit({TemplateShared})

NextServer ==
    \/ SrvAddSimulation
    \/ MonitorPass
    \/ UcTest
    \/ UcAlive
    \/ UcCount
    \/ UcPop
    \/ UcAppend
    \/ SrvRunSlot
    \/ MonitorDrain
    \/ TaskExit

SpecServer == InitServer /\ [][NextServer]_vars

\* one caller editing inside instances and choosing their sub-circuit
InitRetarget ==
    /\ SchedInit
    /\ StepperInit
    /\ parallel_sims = 1
    /\ timeout = NoneT
    /\ EditorInit({TemplateTwo, TemplateNested})

NextRetarget ==
    \/ RetargetSetComponentValue
    \/ RetargetSetElementModel
    \/ WriteNetlist

SpecRetarget == InitRetarget /\ [][NextRetarget]_vars

\* one caller setting the values of top-level components
InitTop ==
    /\ SchedInit
    /\ StepperInit
    /\ parallel_sims = 1
    /\ timeout = NoneT
    /\ EditorInit({TemplateFirst, TemplateShared})

NextTop ==
    \/ TopSetComponentValue
    \/ WriteNetlist

SpecTop == InitTop /\ [][NextTop]_vars

\* one caller adding and removing directives and setting parameters, on
\* documents with and without a .backanno line
InitInsert ==
    /\ SchedInit
    /\ StepperInit
    /\ parallel_sims = 1
    /\ timeout = NoneT
    /\ EditorInit({TemplateShared, TemplateOne, TemplateMarker, TemplateParam})

NextInsert ==
    \/ InsertAddInstruction
    \/ InsertRemoveInstruction
    \/ SetParameter

SpecInsert == InitInsert /\ [][NextInsert]_vars

\* one caller editing a document created blank, or one read from a file,
\* writing it and reading the file written
InitBlank ==
    /\ SchedInit
    /\ StepperInit
    /\ parallel_sims = 1
    /\ timeout = NoneT
    /\ EditorInit({BlankLines, TemplateParam})

NextBlank ==
    \/ BlankAddInstruction
    \/ SetParameter
    \/ WriteNetlist
    \/ ReadWritten

SpecBlank == InitBlank /\ [][NextBlank]_vars

\* one caller registering sweeps on a SimStepper and running them
InitStep ==
    /\ SchedInit
    /\ StepperInit
    /\ parallel_sims = 1
    /\ timeout = NoneT
    /\ EditorInit({TemplateParam})

NextStep ==
    \/ AddParamSweep
    \/ AddValueSweep
    \/ RunAll

SpecStep == InitStep /\ [][NextStep]_vars

\* a SpiceEditor under construction on a netlist file: the fields as
\* __init__ sets them before it calls reset_netlist()
InitLoad ==
    /\ SchedInit
    /\ StepperInit
    /\ parallel_sims = 1
    /\ timeout = NoneT
    /\ template \in LoadInputs
    /\ netlist = << >>
    /\ circuits = << >>
    /\ modified_subcircuits = << >>
    /\ written = << >>
    /\ calls = << >>

NextLoad == LoadTemplate

SpecLoad == InitLoad /\ [][NextLoad]_vars

\* one caller editing and reading components that may not be there
InitLookup ==
    /\ SchedInit
    /\ StepperInit
    /\ parallel_sims = 1
    /\ timeout = NoneT
    /\ EditorInit({TemplateShared, TemplateBroken})

NextLookup ==
    \/ LookupSetComponentValue
    \/ LookupSetElementModel
    \/ LookupGetComponentValue

SpecLookup == InitLookup /\ [][NextLookup]_vars

\* one caller setting and getting the parameters of a SpiceEditor
InitParam ==
    /\ SchedInit
    /\ StepperInit
    /\ parallel_sims = 1
    /\ timeout = NoneT
    /\ EditorInit({TemplateShared, TemplateParam})

NextParam ==
    \/ SetParameter
    \/ GetParameter

SpecParam == InitParam /\ [][NextParam]_vars

\* ------------------------------------------------------------ claims

CountIn(s, k) == Cardinality({i \in 1..Len(s) : s[i] = k})

\* C1: when every run() call is made with wait_resource=True, the number of
\* active tasks never exceeds parallel_sims, in any state the caller or an
\* observer can see.
C1_ActiveWithinCap == Len(active_tasks) <= parallel_sims

\* C1 witness: a run() call is held back because the active tasks fill the cap
C1_Witness ==
    /\ pc = "run_wait"
    /\ wait_resource
    /\ Len(Updated.active) = parallel_sims
    /\ runno > parallel_sims

\* C2: okSim is the number of completed tasks that ended with return code 0,
\* failSim the number of the others, and a second update_completed() with no
\* process exit in between changes nothing.
C2_CountersMatchCompleted ==
    /\ okSim = Cardinality({i \in 1..Len(completed_tasks) :
                              tasks[completed_tasks[i]].retcode = 0})
    /\ failSim = Cardinality({i \in 1..Len(completed_tasks) :
                                tasks[completed_tasks[i]].retcode # 0})
    /\ okSim + failSim = Len(completed_tasks)
    /\ LET u == Updated
       IN  update_completed(u.active, u.completed, u.ok, u.fail) = u

\* C2 witness: a success, a plain failure and a timeout have all been counted
\* by update_completed and run_now
C2_Witness ==
    /\ okSim = 1
    /\ failSim = 1
    /\ Len(completed_tasks) = 2
    /\ pc = "idle"
    /\ result.op = "update_completed"

\* C3: every task is in exactly one of active_tasks and completed_tasks,
\* once; a task in completed_tasks stays there and never returns to
\* active_tasks.
C3_InExactlyOneList ==
    \A k \in 1..Len(tasks) : CountIn(active_tasks, k) + CountIn(completed_tasks, k) = 1

C3_CompletedStays ==
    \A k \in Range(completed_tasks) :
        k \in Range(completed_tasks') /\ k \notin Range(active_tasks')

C3_ExactlyOneListOnce == []C3_InExactlyOneList /\ [][C3_CompletedStays]_vars

\* C3 witness: one task has moved to completed_tasks while another is active
C3_Witness ==
    /\ Len(active_tasks) = 1
    /\ Len(completed_tasks) = 1
    /\ result.op = "update_completed"

\* C4: wait_completion returns True exactly when, as it returns, no task is
\* left active and every completed task ended with return code 0.
C4_TrueIffAllSucceeded ==
    (pc = "idle" /\ result.op = "wait_completion")
        => ((result.val = "True")
              <=> (/\ active_tasks = <<>>
                   /\ \A k \in Range(completed_tasks) : tasks[k].retcode = 0))

\* C5: when wait_completion returns with no active task after n run() calls
\* that each started a task (and no other launch), runno, the number of
\* completed tasks and okSim + failSim all equal n.
C5_AllRunsCompleted ==
    (pc = "idle" /\ result.op = "wait_completion" /\ active_tasks = <<>> /\ all_started)
        => /\ runno = Len(tasks)
           /\ Len(completed_tasks) = Len(tasks)
           /\ okSim + failSim = Len(tasks)

\* C5 witness: wait_completion has returned after MaxRuns successful launches
C5_Witness ==
    /\ pc = "idle"
    /\ result.op = "wait_completion"
    /\ active_tasks = <<>>
    /\ all_started
    /\ Len(tasks) = MaxRuns
    /\ okSim = MaxRuns

\* ---- the editor

\* the name after the nodes on the instance line of x in the list nl
InstanceTarget(nl, x) ==
    LET k == get_line_starting_with(nl, x)
    IN  IF k = 0 THEN << >>
        ELSE IF re_match(RegexX, nl[k].text).ok
             THEN GroupText(nl[k].text, re_match(RegexX, nl[k].text), "value")
             ELSE << >>

\* the line of x in the list nl
InstanceLine(nl, x) ==
    IF get_line_starting_with(nl, x) = 0 THEN << >> ELSE nl[get_line_starting_with(nl, x)].text

\* the text of the sub-circuit named nm that the list nl defines
DefinitionText(nl, objs, nm) ==
    IF find_named(nl, objs, 1, nm).err # "ok" THEN << >>
    ELSE write_lines(objs[find_named(nl, objs, 1, nm).id], 1, objs)

InstX1 == << "X", "1" >>

InstX2 == << "X", "2" >>

NameS == << "S" >>

\* the definition of S as TemplateShared spells it
TextOfS == FileText(SubSeq(TemplateShared, 5, 7))

\* the clone of S for instance X1 with R1 set to v, as write_netlist spells it
ExpectedClone(v) ==
    CloneHeader \o << "\n" >>
    \o << ".", "s", "u", "b", "c", "k", "t", " ", "S", "_", "X", "1", " ", "a", " ", "b", "\n" >>
    \o << "R", "1", " ", "a", " ", "b", " " >> \o v \o << "\n" >>
    \o << ".", "E", "N", "D", "S", " ", "S", "_", "X", "1", "\n" >>
    \o CloneFooter \o << "\n" >>

\* the line that closes the top-level circuit of a file: the first line with a
\* command starting with .END that is not inside a sub-circuit (0: none)
RECURSIVE ClosingLineFrom(_, _, _)
ClosingLineFrom(lines, k, depth) ==
    IF k > Len(lines) THEN 0
    ELSE IF get_line_command(lines[k]) = DotSUBCKT THEN ClosingLineFrom(lines, k + 1, depth + 1)
    ELSE IF Slice(get_line_command(lines[k]), 0, 4) # DotEND THEN ClosingLineFrom(lines, k + 1, depth)
    ELSE IF depth = 0 THEN k
    ELSE ClosingLineFrom(lines, k + 1, depth - 1)

ClosingLine(lines) == ClosingLineFrom(lines, 1, 0)

\* a reset_netlist() that returned, followed by write_netlist()
ResetThenWrite == last.op = "write_netlist" /\ prev.op = "reset_netlist" /\ prev.err = "ok"

\* C6, as stated: after any calls, reset_netlist() followed by write_netlist()
\* writes exactly the text of the template.
C6_ResetThenWriteIsTemplate == ResetThenWrite => written = FileText(template)

\* C6, amended: after any calls, reset_netlist() followed by write_netlist()
\* writes the text of the template up to and including the line that closes
\* the top-level circuit, with no clone text: the whole template exactly when
\* nothing follows that line.
C6_ResetThenWriteIsTemplateToEnd ==
    ResetThenWrite =>
        /\ written = FileText(SubSeq(template, 1, ClosingLine(template)))
        /\ ~Contains(written, CloneHeader)
        /\ (written = FileText(template)) <=> (ClosingLine(template) = Len(template))

\* C6 witness: a nested-path edit registered a clone, then reset_netlist() and
\* write_netlist() wrote the template back
C6_Witness ==
    /\ Len(calls) = 3
    /\ calls[1].op = "set_component_value" /\ calls[1].arg = DevX1R1 /\ calls[1].err = "ok"
    /\ ResetThenWrite
    /\ written = FileText(template)
    /\ modified_subcircuits = << >>

\* a designator of a line of the template's top-level circuit
PresentInTemplate(d) ==
    get_line_starting_with(
        reset_netlist(template, [netlist |-> << >>, objs |-> << >>, modified |-> << >>]).doc.netlist,
        d) # 0

\* C7: for a designator d of the template, set_component_value(d, v) followed
\* by get_component_value(d) returns v when v is a str and the engineering
\* format of v when v is a number.
C7_GetReturnsValueSet ==
    (/\ last.op = "get_component_value"
     /\ prev.op = "set_component_value"
     /\ prev.arg = last.arg
     /\ PresentInTemplate(prev.arg))
    => (prev.err = "ok" /\ last.err = "ok" /\ last.out = ValueText(prev.val))

\* a call just made: set_component_value through instance p on its R1, while
\* p and q both instantiate the sub-circuit S that the top level defines
EditThrough(p, q) ==
    /\ Len(calls') = Len(calls) + 1
    /\ calls'[Len(calls')].op = "set_component_value"
    /\ calls'[Len(calls')].arg = p \o << SUBCKT_DIVIDER >> \o DevR1
    /\ InstanceTarget(netlist, p) = NameS
    /\ InstanceTarget(netlist, q) = NameS
    /\ find_named(netlist, circuits, 1, NameS).err = "ok"

SiblingKept(p, q) ==
    EditThrough(p, q) =>
        /\ calls'[Len(calls')].err = "ok"
        /\ InstanceLine(netlist', q) = InstanceLine(netlist, q)
        /\ InstanceTarget(netlist', q) = NameS
        /\ DefinitionText(netlist', circuits', NameS) = DefinitionText(netlist, circuits, NameS)
        /\ InstanceTarget(netlist', p) # NameS

\* C8: when X1 and X2 both instantiate S, an edit of R1 through one of them
\* leaves the instance line of the other as it was, still naming S, leaves the
\* text of the definition of S as it was, and retargets only the edited
\* instance.
C8_SiblingUnchanged == [][SiblingKept(InstX1, InstX2) /\ SiblingKept(InstX2, InstX1)]_vars

\* C8 witness: X1:R1 was edited; X2 still names S, X1 names the clone, and the
\* definition of S is the template's
C8_Witness ==
    /\ last.op = "set_component_value" /\ last.arg = DevX1R1 /\ last.err = "ok"
    /\ InstanceTarget(netlist, InstX2) = NameS
    /\ InstanceLine(netlist, InstX2) = TemplateShared[4]
    /\ InstanceTarget(netlist, InstX1) = << "S", "_", "X", "1" >>
    /\ DefinitionText(netlist, circuits, NameS) = TextOfS

\* a call just made: set_component_value('X1:R1', v) while X1 instantiates the
\* sub-circuit S that the top level defines
EditX1R1 ==
    /\ Len(calls') = Len(calls) + 1
    /\ calls'[Len(calls')].op = "set_component_value"
    /\ calls'[Len(calls')].arg = DevX1R1
    /\ InstanceTarget(netlist, InstX1) = NameS
    /\ find_named(netlist, circuits, 1, NameS).err = "ok"

Terminated(instr) == IF EndsWith(instr, END_LINE_TERM) THEN instr ELSE instr \o END_LINE_TERM

\* the entries of the top-level list that are directives of the kind cmd
DirectivesOfKind(cmd) == {k \in 1..Len(netlist) : EntryCommand(netlist[k]) = cmd}

\* two add_instruction calls in a row with directives of one unique kind
AddedTwice ==
    /\ last.op = "add_instruction"
    /\ prev.op = "add_instruction"
    /\ get_line_command(last.arg) = get_line_command(prev.arg)
    /\ get_line_command(last.arg) \in UNIQUE_SIMULATION_DOT_INSTRUCTIONS

\* C10: after two add_instruction calls in a row with directives of the same
\* unique kind, the document holds exactly one directive of that kind, and it
\* is the text of the second call.
C10_UniqueDirectiveReplaced ==
    AddedTwice =>
        /\ Cardinality(DirectivesOfKind(get_line_command(last.arg))) = 1
        /\ \A k \in DirectivesOfKind(get_line_command(last.arg)) :
               netlist[k] = StrEntry(Terminated(last.arg))

\* C10 witness: ".tran 1" then ".tran 2" were added; one .TRAN line is left
C10_Witness ==
    /\ AddedTwice
    /\ Terminated(prev.arg) # Terminated(last.arg)
    /\ Cardinality(DirectivesOfKind(<< ".", "T", "R", "A", "N" >>)) = 1

\* ---- the scheduler, continued

\* a step in which a run() call made with wait_resource=True returns or raises
RunWaitEnds == pc = "run_wait" /\ wait_resource /\ pc' = "idle"

\* the refusal: the wait is over, None is returned, no RunTask is created and
\* active_tasks is left as it was
RefusalStep ==
    (RunWaitEnds /\ result'.val = "None") =>
        /\ ~(elapsed < run_timeout + 1)
        /\ result'.op = "run"
        /\ tasks' = tasks
        /\ active_tasks' = active_tasks
        /\ refused' = refused + 1

\* the start: within the wait, update_completed() left fewer than
\* parallel_sims active tasks, and the new task is appended to them
StartStep ==
    (RunWaitEnds /\ result'.val # "None") =>
        /\ elapsed < run_timeout + 1
        /\ result' = [op |-> "run", val |-> "started"]
        /\ Len(Updated.active) < parallel_sims
        /\ Len(tasks') = Len(tasks) + 1
        /\ active_tasks' = Append(Updated.active, Len(tasks'))
        /\ tasks'[Len(tasks')].alive

\* a pass of the loop that leaves run() waiting leaves at least parallel_sims
\* tasks active and creates none
HeldStep ==
    (pc = "run_wait" /\ wait_resource /\ pc' = "run_wait") =>
        /\ Len(tasks') = Len(tasks)
        /\ (result'.val = "waiting" /\ elapsed' = elapsed) => Len(active_tasks') >= parallel_sims

\* C11: a run() call with wait_resource=True returns None, raising nothing,
\* creating no task and leaving active_tasks alone, only once its wait timeout
\* (timeout + 1 on its clock) is over, every pass of its loop before that
\* having found at least parallel_sims tasks active; a pass made within the
\* wait that finds a free slot starts the task instead.
C11_RefusedOnlyAfterFullWait == [][RefusalStep /\ StartStep /\ HeldStep]_vars

\* C11 witness: a run() call was refused while the first task is still the
\* only one, and still active
C11_Witness ==
    /\ pc = "idle"
    /\ result = [op |-> "run", val |-> "None"]
    /\ refused = 1
    /\ runno = 2
    /\ Len(tasks) = 1
    /\ active_tasks = << 1 >>
    /\ tasks[1].alive

\* C11 witness of the other case: the second run() call waited, a slot freed,
\* and the call started its task
C11_WitnessStarted ==
    /\ pc = "idle"
    /\ result = [op |-> "run", val |-> "started"]
    /\ parallel_sims = 1
    /\ active_tasks = << 2 >>
    /\ completed_tasks = << 1 >>
    /\ refused = 0

\* C12: the tasks, in the order they were launched by run() and run_now(),
\* carry strictly increasing run numbers, none above the run counter, so no
\* two tasks share one; the order in completed_tasks may differ.
C12_RunnoIncreasesWithLaunch ==
    /\ \A i, j \in 1..Len(tasks) : i < j => tasks[i].runno < tasks[j].runno
    /\ \A i \in 1..Len(tasks) : tasks[i].runno >= 1 /\ tasks[i].runno <= runno

\* C12 witness: the task launched second completed first
C12_Witness ==
    /\ Len(tasks) = 2
    /\ completed_tasks = << 2, 1 >>
    /\ tasks[1].runno = 1
    /\ tasks[2].runno = 2

\* the exceptions a call can raise
Exceptions == {"ValueError", "TypeError", "StopIteration", "SimRunnerTimeoutError"}

\* the tasks that enter completed_tasks in a step
NewlyCompleted == Range(completed_tasks') \ Range(completed_tasks)

\* a step of the SimRunner (it writes a field or a local of a call) writes to
\* no task that exists: a task ends only by its own process
SiblingsNotTerminated ==
    (svars' # svars /\ <<active_tasks, completed_tasks, result, pc, runno>>'
                        # <<active_tasks, completed_tasks, result, pc, runno>>)
        => \A k \in 1..Len(tasks) : tasks'[k] = tasks[k]

\* a task leaves active_tasks only once its own thread has ended, and it is
\* then in completed_tasks; active tasks that are alive keep their place
SiblingsNotRemoved ==
    /\ \A k \in Range(active_tasks) :
           k \notin Range(active_tasks') =>
               (~tasks[k].alive /\ k \in NewlyCompleted)
    /\ \A k \in NewlyCompleted : ~tasks'[k].alive

\* the tasks that newly enter completed_tasks having failed are counted in
\* failSim, the others in okSim
FailuresCounted ==
    /\ failSim' = failSim + Cardinality({k \in NewlyCompleted : tasks'[k].retcode # 0})
    /\ okSim' = okSim + Cardinality({k \in NewlyCompleted : tasks'[k].retcode = 0})

\* update_completed and wait_completion raise nothing; run raises only at its
\* entry, before it looks at a task; wait_completion leaves with tasks still
\* active only from its deadline test
NothingRaisedForFailure ==
    /\ result'.op \in {"update_completed", "wait_completion"} => result'.val \notin Exceptions
    /\ (result'.op = "run" /\ result'.val \in Exceptions /\ result' # result)
          => (pc = "idle" /\ active_tasks' = active_tasks /\ completed_tasks' = completed_tasks)
    /\ (pc \in {"wc_test", "wc_sleep"} /\ pc' = "idle" /\ active_tasks' # << >>)
          => (pc = "wc_sleep" /\ result'.val = "False")

\* C13: a task that ended with a non-zero return code or on its timeout is
\* moved to completed_tasks and counted in failSim; no step of the SimRunner
\* ends or removes another task; run, update_completed and wait_completion
\* do not raise because of it; the other active tasks stay in active_tasks
\* until their own process ends.
C13_FailureLeavesSiblings ==
    [][SiblingsNotTerminated /\ SiblingsNotRemoved /\ FailuresCounted /\ NothingRaisedForFailure]_vars

\* C13 witness: of two tasks running side by side the first failed and was
\* recorded, the second is still active and alive
C13_Witness ==
    /\ completed_tasks = << 1 >>
    /\ tasks[1].retcode # 0
    /\ failSim = 1
    /\ okSim = 0
    /\ active_tasks = << 2 >>
    /\ tasks[2].alive
    /\ tasks[2].start_time <= tasks[1].start_time

\* a pass of __next__'s loop that changes something
NextPass ==
    /\ pc \in {"idle", "next_sleep"}
    /\ result'.op = "next"
    /\ tasks' = tasks
    /\ now' = now

\* what a pass of __next__ does, from the lists as update_completed() leaves
\* them: a result not yet returned is returned; else the iteration ends if no
\* task is active; else SimRunnerTimeoutError is raised if the latest deadline
\* of the active tasks has passed; else the call sleeps
NextOutcome ==
    NextPass =>
        IF Len(yielded) < Len(Updated.completed)
        THEN /\ result'.val = "result"
             /\ yielded' = Append(yielded, Updated.completed[Len(yielded) + 1])
        ELSE /\ yielded' = yielded
             /\ result'.val =
                   IF Updated.active = << >> THEN "StopIteration"
                   ELSE IF /\ maximum_stop_time(Updated.active) # NoneT
                           /\ now > maximum_stop_time(Updated.active)
                        THEN "SimRunnerTimeoutError"
                        ELSE "pending"

\* the tasks returned since __iter__ are the first ones of completed_tasks, in
\* its order, each once
YieldedInArrivalOrder ==
    /\ Len(yielded) <= Len(completed_tasks)
    /\ yielded = SubSeq(completed_tasks, 1, Len(yielded))
    /\ \A i, j \in 1..Len(yielded) : i # j => yielded[i] # yielded[j]

\* when the iteration has ended no task is active and every task was returned
EndsWhenDrained ==
    result = [op |-> "next", val |-> "StopIteration"] =>
        /\ active_tasks = << >>
        /\ yielded = completed_tasks
        /\ Range(yielded) = 1..Len(tasks)

\* when the iteration has raised its timeout, tasks are active, every
\* completed one was returned and the latest deadline has passed
TimeoutWhenOverdue ==
    result = [op |-> "next", val |-> "SimRunnerTimeoutError"] =>
        /\ active_tasks # << >>
        /\ yielded = completed_tasks
        /\ maximum_stop_time(active_tasks) # NoneT
        /\ now > maximum_stop_time(active_tasks)

\* C14: from __iter__ on, __next__ returns the results of the tasks in the
\* order of completed_tasks, each once, those already completed first and the
\* others as they finish; it raises StopIteration only when no task is active
\* and every completed one was returned, and SimRunnerTimeoutError when, with
\* nothing left to return and tasks still active, the latest start time plus
\* timeout of the active tasks has passed.
C14_IterationYieldsEachOnce ==
    /\ [](YieldedInArrivalOrder /\ EndsWhenDrained /\ TimeoutWhenOverdue)
    /\ [][NextOutcome]_vars

\* C14 witness: the iteration returned the task launched second, then the
\* one launched first, which completed later, and ended
C14_Witness ==
    /\ result = [op |-> "next", val |-> "StopIteration"]
    /\ yielded = << 2, 1 >>
    /\ completed_tasks = << 2, 1 >>

\* C14 witness of the timeout: one task was returned, the other is overdue
C14_WitnessTimeout ==
    /\ result = [op |-> "next", val |-> "SimRunnerTimeoutError"]
    /\ Len(yielded) = 1
    /\ Len(active_tasks) = 1

\* a callback with fewer than two parameters, or with parameters after the
\* second that callback_args does not supply: none given, another number of
\* them, or, in a dict, one of the names missing
CallbackRejected(callback, callback_args) ==
    /\ ~callback.none
    /\ \/ Len(callback.args) < 2
       \/ /\ Len(callback.args) > 2
          /\ \/ callback_args.kind = "None"
             \/ callback_args.n # Len(callback.args) - 2
             \/ /\ callback_args.kind = "dict"
                /\ \E pos \in 3..Len(callback.args) :
                       callback.args[pos] \notin callback_args.names

\* the step that enters run(): validation, _prepare_sim, the timeout
RunEntry ==
    /\ pc = "idle"
    /\ result'.op = "run"
    /\ tasks' = tasks
    /\ now' = now

\* the run counter, the files written and the tasks are as they were
NothingPrepared ==
    /\ runno' = runno
    /\ files' = files
    /\ written' = written
    /\ Len(tasks') = Len(tasks)
    /\ active_tasks' = active_tasks
    /\ completed_tasks' = completed_tasks
    /\ pc' = "idle"

\* C15: run() with a callback of fewer than two parameters, or with extra
\* parameters that callback_args does not supply in number and (for a dict)
\* by name, raises ValueError; and run() raising ValueError has not
\* incremented the run counter, written a file or created a task.
C15_CallbackValidatedFirst ==
    [][RunEntry =>
          /\ CallbackRejected(result'.callback, result'.callback_args)
                => result'.val = "ValueError"
          /\ result'.val = "ValueError" => NothingPrepared
      ]_vars

\* C15 witness: after one run that started, a run() with a callback whose
\* third parameter x is missing from the dict {y: ...} raised ValueError
C15_Witness ==
    /\ result = [op |-> "run", val |-> "ValueError",
                 callback |-> Callback(<< "raw", "log", "x" >>),
                 callback_args |-> DictArgs({"y"})]
    /\ runno = 1
    /\ Len(tasks) = 1
    /\ Cardinality(files) = 1

\* C16: the netlist file recorded on every task has the suffix .net and is a
\* file that _prepare_sim wrote, whether its name was defaulted or given
\* through run_filename.
C16_ArtifactIsNetFileWritten ==
    \A k \in 1..Len(tasks) :
        /\ suffix(tasks[k].netlist_file) = DotNet
        /\ tasks[k].netlist_file \in files

\* C16, the cases that hold: a task launched with the default name or with a
\* run_filename ending in .net records the file that was written
C16_NetNamesRecorded ==
    \A k \in 1..Len(tasks) :
        suffix(tasks[k].netlist_file) = DotNet => tasks[k].netlist_file \in files

\* ---- the editor, continued

\* the top-level list of the template as the constructor parses it
TemplateNetlist ==
    reset_netlist(template, [netlist |-> << >>, objs |-> << >>, modified |-> << >>]).doc.netlist

\* the name p stands at index i of text: after a blank, and followed, blanks
\* skipped, by "="
DefinedAt(text, i, p) ==
    /\ i >= 2
    /\ i + Len(p) <= Len(text)
    /\ text[i - 1] \in SpaceChars
    /\ Upper(SubSeq(text, i, i + Len(p) - 1)) = Upper(p)
    /\ SkipBlanks(text, i + Len(p)) <= Len(text)
    /\ text[SkipBlanks(text, i + Len(p))] = "="

\* the definitions of the parameter p in the .PARAM lines of the list nl:
\* where they stand
ParamDefinitions(nl, p) ==
    { d \in (1..Len(nl)) \X (1..20) :
        /\ nl[d[1]].sub = 0
        /\ get_line_command(nl[d[1]].text) = DotPARAM
        /\ DefinedAt(nl[d[1]].text, d[2], p) }

\* the text that follows the "=" of a definition, up to the next blank
DefinedValue(text, i, p) ==
    SubSeq(text, SkipBlanks(text, SkipBlanks(text, i + Len(p)) + 1),
           SkipTo(text, SkipBlanks(text, SkipBlanks(text, i + Len(p)) + 1),
                  {" ", "\t", "\n"}) - 1)

\* the last set_parameter call made for p (0: none)
LastSetOf(p) ==
    IF \E k \in 1..Len(calls) : calls[k].op = "set_parameter" /\ calls[k].arg = p
    THEN CHOOSE k \in 1..Len(calls) :
            /\ calls[k].op = "set_parameter" /\ calls[k].arg = p
            /\ \A j \in (k + 1)..Len(calls) : ~(calls[j].op = "set_parameter" /\ calls[j].arg = p)
    ELSE 0

\* a parameter that was set has one definition, with the value set last,
\* and get_parameter returns it; one never defined is not found
ParametersHoldLastValue ==
    \A p \in GetParameterInputs :
        IF LastSetOf(p) # 0
        THEN /\ Cardinality(ParamDefinitions(netlist, p)) = 1
             /\ \A d \in ParamDefinitions(netlist, p) :
                    DefinedValue(netlist[d[1]].text, d[2], p) = ParamText(calls[LastSetOf(p)].val)
             /\ get_parameter(netlist, p) = [err |-> "ok", val |-> ParamText(calls[LastSetOf(p)].val)]
        ELSE ParamDefinitions(TemplateNetlist, p) = {}
                => get_parameter(netlist, p).err = "ParameterNotFoundError"

\* what a get_parameter call returned or raised is what the document held
ParameterGot ==
    last.op = "get_parameter" =>
        (last.err = get_parameter(netlist, last.arg).err /\ last.out = get_parameter(netlist, last.arg).val)

\* a set_parameter call for p rewrites the line of the definition of p and no
\* other; with no definition, it inserts one .PARAM line before the closing
\* directive and leaves the other entries as they were
ParameterSetInPlace ==
    (Len(calls') = Len(calls) + 1 /\ calls'[Len(calls')].op = "set_parameter") =>
        IF ParamDefinitions(netlist, calls'[Len(calls')].arg) # {}
        THEN /\ Len(netlist') = Len(netlist)
             /\ \A k \in 1..Len(netlist) :
                    (\A d \in ParamDefinitions(netlist, calls'[Len(calls')].arg) : d[1] # k)
                        => netlist'[k] = netlist[k]
        ELSE /\ Len(netlist') = Len(netlist) + 1
             /\ \E j \in 1..Len(netlist) :
                    /\ netlist' = SubSeq(netlist, 1, j - 1) \o << netlist'[j] >>
                                    \o SubSeq(netlist, j, Len(netlist))
                    /\ netlist'[j].sub = 0
                    /\ get_line_command(netlist'[j].text) = DotPARAM
                    /\ \E k \in (j + 1)..Len(netlist') :
                           netlist'[k].sub = 0 /\ StartsWith(Upper(netlist'[k].text), DotEND)

\* C17: after any set_parameter calls, each parameter that was set has
\* exactly one definition in the top-level .PARAM lines, holding the value of
\* the last set_parameter for it (a definition that existed is rewritten in
\* its line, a missing one is inserted as one line before the closing
\* directive), and get_parameter returns that value; get_parameter of a name
\* never defined raises ParameterNotFoundError.
C17_ParameterSetThenGet ==
    /\ [](ParametersHoldLastValue /\ ParameterGot)
    /\ [][ParameterSetInPlace]_vars

\* C17 witness: X was inserted with 5, rewritten with 40, and read back
C17_Witness ==
    /\ template = TemplateShared
    /\ Len(calls) = 3
    /\ calls[1] = Call("set_parameter", << "X" >>, StrVal(<< "5" >>), << >>, "ok")
    /\ calls[2] = Call("set_parameter", << "X" >>, NumVal(40), << >>, "ok")
    /\ calls[3] = Call("get_parameter", << "X" >>, StrVal(<< >>), << "4", "0" >>, "ok")
    /\ Len(netlist) = Len(TemplateNetlist) + 1

\* C17 witness of the other cases: Y, defined by the template, was rewritten
\* in its line, and W, never defined, was not found
C17_WitnessNotFound ==
    /\ template = TemplateParam
    /\ Len(calls) = 2
    /\ calls[1].op = "set_parameter" /\ calls[1].arg = << "Y" >>
    /\ netlist[2].text
         = << ".", "p", "a", "r", "a", "m", " ", "X", "=", "1", " ", "Y", "=", "7", "k", "\n" >>
    /\ calls[2] = Call("get_parameter", << "W" >>, StrVal(<< >>), << >>, "ParameterNotFoundError")

\* the step is a call of remove_instruction
RemoveStep ==
    /\ Len(calls') = Len(calls) + 1
    /\ calls'[Len(calls')].op = "remove_instruction"

\* the entries of the top-level list that are the terminated text of the call
Matching == { k \in 1..Len(netlist) : netlist[k] = [sub |-> 0, text |-> Terminated(calls'[Len(calls')].arg)] }

\* C18: a remove_instruction(text) call removes a top-level entry equal to
\* text with its line terminator (appended when missing) and nothing else;
\* when no entry is equal to it character for character, the call fails with
\* an error and the document is left as it was.
C18_RemoveExactOrFail ==
    [][RemoveStep =>
         IF Matching # {}
         THEN /\ calls'[Len(calls')].err = "ok"
              /\ \E k \in Matching : netlist' = SubSeq(netlist, 1, k - 1) \o SubSeq(netlist, k + 1, Len(netlist))
              /\ UNCHANGED <<circuits, modified_subcircuits, written>>
         ELSE /\ calls'[Len(calls')].err = "ValueError"
              /\ UNCHANGED <<netlist, circuits, modified_subcircuits, written>>]_vars

\* C18 witness: ".tran 1" was added and then removed without its line
\* terminator, and the list is the template's again
C18_Witness ==
    /\ Len(calls) = 2
    /\ calls[1] = Call("add_instruction", << ".", "t", "r", "a", "n", " ", "1" >>, StrVal(<< >>), << >>, "ok")
    /\ calls[2] = Call("remove_instruction", << ".", "t", "r", "a", "n", " ", "1" >>, StrVal(<< >>), << >>, "ok")
    /\ netlist = TemplateNetlist

\* C18 witness of the failure: ".tran 1" is in the list, and neither the
\* capitals nor the two blanks match it
C18_WitnessNoMatch ==
    /\ Len(calls) = 3
    /\ calls[1] = Call("add_instruction", << ".", "t", "r", "a", "n", " ", "1" >>, StrVal(<< >>), << >>, "ok")
    /\ calls[2] = Call("remove_instruction", << ".", "T", "R", "A", "N", " ", "1" >>, StrVal(<< >>), << >>, "ValueError")
    /\ calls[3] = Call("remove_instruction", << ".", "t", "r", "a", "n", " ", " ", "1", "\n" >>, StrVal(<< >>), << >>, "ValueError")
    /\ \E k \in 1..Len(netlist) : netlist[k] = StrEntry(<< ".", "t", "r", "a", "n", " ", "1", "\n" >>)

\* the step is a call of one of the three operations on a designator
LookupOps == {"set_component_value", "set_element_model", "get_component_value"}

LookupStep ==
    /\ Len(calls') = Len(calls) + 1
    /\ calls'[Len(calls')].op \in LookupOps

\* the designator of the call, and whether the call reads it as a path
\* through an instance of a sub-circuit (only the two edits do)
Designator == calls'[Len(calls')].arg

IsPath ==
    /\ calls'[Len(calls')].op # "get_component_value"
    /\ Designator[1] = "X"
    /\ \E i \in 1..Len(Designator) : Designator[i] = ":"

PathInstance == Split(Designator, ":")[1]

PathComponent == Split(Designator, ":")[Len(Split(Designator, ":"))]

\* the leading tokens of the lines of a list, in capitals
LeadingTokens(nl) == { first_token_upped(nl[k].text) : k \in { j \in 1..Len(nl) : nl[j].sub = 0 } }

\* the words of a line
Words(line) ==
    SelectSeq(Split(IF EndsWith(line, END_LINE_TERM) THEN SubSeq(line, 1, Len(line) - 1) ELSE line, " "),
              LAMBDA w : Len(w) > 0)

\* the line of the instance the path goes through, when there is one
PathInstanceLine ==
    netlist[CHOOSE k \in 1..Len(netlist) :
               netlist[k].sub = 0 /\ first_token_upped(netlist[k].text) = Upper(PathInstance)].text

\* the top-level sub-circuits with the name nm
Definitions(nm) ==
    { k \in 1..Len(netlist) : netlist[k].sub # 0 /\ name(circuits[netlist[k].sub]) = [err |-> "ok", name |-> nm] }

\* the lines the component of a path is looked for in: those of the clone
\* made for the instance, or of the definition the instance line names
PathLines ==
    IF InModified(modified_subcircuits, PathInstance)
    THEN circuits[ModifiedAt(modified_subcircuits, PathInstance)]
    ELSE circuits[netlist[CHOOSE k \in Definitions(Words(PathInstanceLine)[Len(Words(PathInstanceLine))]) : TRUE].sub]

\* the designator of the call names nothing: no top-level line leads with
\* it; or, for a path, no line leads with the instance, or the instance line
\* (a designator, nodes and a name) names a sub-circuit that has no
\* definition, or no line of the sub-circuit leads with the component
UnknownDesignator ==
    IF ~IsPath THEN Upper(Designator) \notin LeadingTokens(netlist)
    ELSE IF InModified(modified_subcircuits, PathInstance)
         THEN Upper(PathComponent) \notin LeadingTokens(PathLines)
    ELSE IF Upper(PathInstance) \notin LeadingTokens(netlist) THEN TRUE
    ELSE IF Len(Words(PathInstanceLine)) < 3 THEN FALSE
    ELSE IF Definitions(Words(PathInstanceLine)[Len(Words(PathInstanceLine))]) = {} THEN TRUE
    ELSE Upper(PathComponent) \notin LeadingTokens(PathLines)

\* the element-type character the call looks a pattern up for
TypeCharacter == IF IsPath THEN PathComponent[1] ELSE Designator[1]

C19_WitnessPath ==
    /\ template = TemplateShared
    /\ Len(calls) = 2
    /\ calls[1] = Call("set_component_value", << "X", "9", ":", "R", "1" >>, FourK, << >>, "ComponentNotFoundError")
    /\ calls[2] = Call("set_component_value", << "X", "1", ":", "R", "9" >>, FourK, << >>, "ComponentNotFoundError")

\* C20: an edit or a lookup on a designator whose element-type character has
\* no pattern never returns normally: set_component_value and
\* set_element_model fail as get_component_value does.
C20_UnsupportedTypeNeverReturns ==
    [][(LookupStep /\ TypeCharacter \notin ReplacePrefixes)
          => calls'[Len(calls')].err # "ok"]_vars

\* the part of C20 that holds: get_component_value on such a designator
\* raises NotImplementedError
C20_GetRaisesNotImplemented ==
    [][(LookupStep /\ calls'[Len(calls')].op = "get_component_value"
                   /\ TypeCharacter \notin ReplacePrefixes)
          => calls'[Len(calls')].err = "NotImplementedError"]_vars

\* what the two edits do instead: they return, and an edit of a top-level
\* designator leaves the document as it was
C20_SetReturnsSilently ==
    [][(LookupStep /\ calls'[Len(calls')].op # "get_component_value" /\ ~IsPath
                   /\ TypeCharacter \notin ReplacePrefixes)
          => (calls'[Len(calls')].err = "ok"
              /\ UNCHANGED <<netlist, circuits, modified_subcircuits>>)]_vars

\* ---- loading a netlist file

\* the line opens a sub-circuit, closes a block (.END, .ENDS), continues the
\* line before it
Opens(line) == get_line_command(line) = << ".", "S", "U", "B", "C", "K", "T" >>

Closes(line) ==
    /\ Len(get_line_command(line)) >= 4
    /\ SubSeq(get_line_command(line), 1, 4) = << ".", "E", "N", "D" >>

Continues(line) == get_line_command(line) = << "+" >>

\* the line that closes the circuit, counting from line pos with depth
\* blocks open; 0 when the lines end before
RECURSIVE ClosedAt(_, _, _)
ClosedAt(lines, pos, depth) ==
    IF pos > Len(lines) THEN 0
    ELSE IF Opens(lines[pos]) THEN ClosedAt(lines, pos + 1, depth + 1)
    ELSE IF ~Closes(lines[pos]) THEN ClosedAt(lines, pos + 1, depth)
    ELSE IF depth = 1 THEN pos
    ELSE ClosedAt(lines, pos + 1, depth - 1)

\* the lines read: up to the closing line, or all of them
LinesRead == IF ClosedAt(template, 1, 1) = 0 THEN Len(template) ELSE ClosedAt(template, 1, 1)

\* the str entries of a list and of the sub-circuits in it
RECURSIVE CountEntries(_, _, _)
CountEntries(nl, k, objs) ==
    IF k > Len(nl) THEN 0
    ELSE (IF nl[k].sub # 0 THEN CountEntries(objs[nl[k].sub], 1, objs) ELSE 1)
         + CountEntries(nl, k + 1, objs)

\* the constructor has run
Loaded == Len(calls) = 1 /\ calls[1].op = "reset_netlist"

\* the last entry of a list is a closing line
ClosedList(nl) == Len(nl) > 0 /\ nl[Len(nl)].sub = 0 /\ Closes(nl[Len(nl)].text)

\* lines that end before every block is closed make the load fail, and a
\* load that succeeds has consumed the closing line of the circuit and of
\* every sub-circuit it holds
ExhaustedIsFatal ==
    Loaded =>
        /\ ClosedAt(template, 1, 1) = 0 => calls[1].err # "ok"
        /\ calls[1].err = "ok" =>
              /\ ClosedAt(template, 1, 1) # 0
              /\ netlist[Len(netlist)] = StrEntry(template[ClosedAt(template, 1, 1)])
              /\ \A id \in 1..Len(circuits) : ClosedList(circuits[id])

\* in a document that loaded, each line read that is not a continuation made
\* one entry, no entry starts with a continuation, and the entries hold the
\* text of the lines read
ContinuationsJoined ==
    (Loaded /\ calls[1].err = "ok") =>
        /\ CountEntries(netlist, 1, circuits)
             = Cardinality({ k \in 1..LinesRead : ~Continues(template[k]) })
        /\ \A k \in 1..Len(netlist) : netlist[k].sub = 0 => ~Continues(netlist[k].text)
        /\ \A id \in 1..Len(circuits) : \A k \in 1..Len(circuits[id]) :
               circuits[id][k].sub = 0 => ~Continues(circuits[id][k].text)
        /\ write_lines(netlist, 1, circuits) = FileText(SubSeq(template, 1, LinesRead))

\* a continuation makes no load fail, unless it is the first line of the file
ContinuationsAccepted ==
    (Loaded /\ ClosedAt(template, 1, 1) # 0 /\ ~Continues(template[1])) => calls[1].err = "ok"

\* C21: loading fails with a fatal error whenever the lines end before the
\* closing directive of the circuit or of an opened .SUBCKT block; a block
\* is reported closed only if its closing directive was consumed; and a
\* continuation line is appended to the entry before it instead of making a
\* new entry.
C21_LoadClosedAndJoined == ExhaustedIsFatal /\ ContinuationsJoined /\ ContinuationsAccepted

\* the parts of C21 that hold: the fatal error, and the joining of the
\* continuations of a line
C21_ExhaustedFatalAndLinesJoined == ExhaustedIsFatal /\ ContinuationsJoined

\* ---- the SimRunner, continued

\* a run() call has returned
RunReturned == result.op = "run" /\ result.val \in {"started", "None"}

\* C22: a run() that starts a task returns that task, the object it has just
\* appended to active_tasks; it returns None only when it refuses.
C22_RunReturnsTheTask ==
    RunReturned =>
        IF result.val = "started"
        THEN run_returned = ReturnedTask(active_tasks[Len(active_tasks)])
        ELSE run_returned = ReturnedNone

\* what holds instead: a run() that starts a task returns the pair of the
\* raw and log file names of the task it has just appended to active_tasks,
\* and None only when it refuses
C22_RunReturnsFileNames ==
    RunReturned =>
        IF result.val = "started"
        THEN run_returned = ReturnedFiles(active_tasks[Len(active_tasks)])
        ELSE run_returned = ReturnedNone /\ refused > 0

\* a pass of wait_completion(timeout=T) after its sleep, in which
\* update_completed() found a simulation completed
WakeWithCompletion ==
    /\ pc = "wc_sleep"
    /\ wc_timeout # NoneT
    /\ Len(completed_tasks') > Len(completed_tasks)

\* C23: in wait_completion(timeout=T) the deadline of T seconds is restarted
\* every time a simulation completes: the wait is not cancelled in a pass
\* that has just found a simulation completed, only after T seconds without
\* a completion.
C23_DeadlineRestartedOnCompletion ==
    [][WakeWithCompletion => pc' # "idle"]_vars

\* what holds instead: the deadline is the one computed when the call was
\* entered, and the wait is cancelled in the first pass made after it
C23_DeadlineFixedAtEntry ==
    [][(pc = "wc_sleep" /\ pc' # "wc_sleep" /\ wc_timeout # NoneT) =>
          /\ pc' = "wc_test" => stop_time' = stop_time
          /\ pc' = "idle" <=> now > stop_time]_vars

\* C24: a SimRunner constructed with timeout=None still launches work:
\* run() and run_now() called without a timeout start the task and return
\* normally, they do not raise.
C24_NoTimeoutStillLaunches ==
    (timeout = NoneT /\ result.op \in {"run", "run_now"}) => result.val # "TypeError"

\* what holds instead: run() and run_now() raise TypeError exactly when no
\* timeout is given to the call nor to the SimRunner, after the run number
\* was taken and the netlist written, and no task is recorded
C24_NoTimeoutRaisesTypeError ==
    [][(result'.op \in {"run", "run_now"} /\ result'.val = "TypeError" /\ runno' # runno) =>
          /\ timeout = NoneT
          /\ runno' = runno + 1
          /\ UNCHANGED <<tasks, active_tasks, completed_tasks, okSim, failSim>>]_vars

\* a step of run_all that returned
RunAllStep == calls' # calls /\ calls'[Len(calls')].op = "run_all" /\ calls'[Len(calls')].err = "ok"

\* the runs issued in the step
NewRuns == SubSeq(launched', Len(launched) + 1, Len(launched'))

\* the number of elements of the Cartesian product of the sweeps from i on
RECURSIVE ProductFrom(_, _)
ProductFrom(il, i) == IF i > Len(il) THEN 1 ELSE StepLen(il[i]) * ProductFrom(il, i + 1)

\* the value sweep i takes in element k of the product, in nested-loop
\* order with the last sweep varying fastest
ValueOf(il, i, k) == il[i].iter[(((k - 1) \div ProductFrom(il, i + 1)) % StepLen(il[i])) + 1]

\* sweep i is the last one registered on its element
Governs(il, i) ==
    \A j \in (i + 1)..Len(il) : ~(il[j].what = il[i].what /\ il[j].elem = il[i].elem)

\* the list nl holds the value v for the element of the sweep step
HoldsValue(nl, step, v) ==
    IF step.what = "param"
    THEN /\ Cardinality(ParamDefinitions(nl, step.elem)) = 1
         /\ \A d \in ParamDefinitions(nl, step.elem) :
                DefinedValue(nl[d[1]].text, d[2], step.elem) = ParamText(v)
    ELSE get_component_value(nl, step.elem) = [err |-> "ok", val |-> ValueText(v)]

\* run k of the step was issued on a document set to element k of the product
RunsFollowTheProduct ==
    \A k \in 1..Len(NewRuns) :
        \A i \in 1..Len(iter_list) :
            Governs(iter_list, i) => HoldsValue(NewRuns[k], iter_list[i], ValueOf(iter_list, i, k))

NoSweepEmpty == \A i \in 1..Len(iter_list) : StepLen(iter_list[i]) > 0

\* C25: run_all launches exactly one run per element of the Cartesian
\* product of the registered sweeps, in nested-loop order with the last
\* registered sweep varying fastest, each run issued after the document was
\* set to that combination's values; the number of runs launched equals
\* total_number_of_simulations(), also when a sweep is empty or when no
\* sweep is registered.
C25_RunsAreTheProduct ==
    [][RunAllStep =>
          /\ Len(NewRuns) = ProductFrom(iter_list, 1)
          /\ Len(NewRuns) = total_number_of_simulations(iter_list)
          /\ RunsFollowTheProduct]_vars

\* what holds instead: one run per element of the product, in that order
\* and on a document set to the element's values; their number is
\* total_number_of_simulations() when no sweep is empty, and with an empty
\* sweep nothing is run
C25_RunsAreTheProductOfNonEmptySweeps ==
    [][RunAllStep =>
          /\ Len(NewRuns) = ProductFrom(iter_list, 1)
          /\ NoSweepEmpty => Len(NewRuns) = total_number_of_simulations(iter_list)
          /\ ~NoSweepEmpty => Len(NewRuns) = 0
          /\ RunsFollowTheProduct]_vars

\* run_all ran four combinations of two sweeps
C25_WitnessTwoSweeps ==
    /\ last.op = "run_all"
    /\ Len(iter_list) = 2
    /\ Len(launched) = 4

\* run_all returned without a run while total_number_of_simulations() is 2
C25_WitnessEmptySweep ==
    /\ last.op = "run_all"
    /\ Len(launched) = 0
    /\ total_number_of_simulations(iter_list) = 2

\* the full text of the object o, nested sub-circuits included
FullText(objs, o) == write_lines(objs[o], 1, objs)

\* the step changed the list of an object reached from the clone c
ChangedUnder(c) == \E t \in Nodes(circuits, c) : circuits'[t] # circuits[t]

\* C26: clone() creates a deep copy: no nested sub-circuit node is shared
\* between the original and the clone, so a later change made to the clone
\* or to one of its nested sub-circuits leaves the original definition,
\* its nested nodes included, unchanged.
C26_CloneIsDeep ==
    [][\A c \in Clones :
          /\ Nodes(circuits, c) \cap Nodes(circuits, ClonedFrom(c)) = {}
          /\ ChangedUnder(c) => FullText(circuits', ClonedFrom(c)) = FullText(circuits, ClonedFrom(c))]_vars

\* what holds instead: the clone has a list of its own, so a change of the
\* clone's own lines leaves the original unchanged, while the nested
\* sub-circuit objects of the original are entries of the clone as well
C26_CloneIsShallow ==
    [][\A c \in Clones :
          /\ c \notin Nodes(circuits, ClonedFrom(c))
          /\ Nodes(circuits, c) \ {c} = Nodes(circuits, ClonedFrom(c)) \ {ClonedFrom(c)}
          /\ circuits'[c] # circuits[c] =>
                FullText(circuits', ClonedFrom(c)) = FullText(circuits, ClonedFrom(c))]_vars

\* a clone of S was edited through its nested sub-circuit T, and the R1 of
\* the T declared in the original S changed with it
C26_WitnessSharedNode ==
    /\ last.op = "set_component_value"
    /\ \E c \in Clones :
          /\ Nodes(circuits, ClonedFrom(c)) # {ClonedFrom(c)}
          /\ FullText(circuits, ClonedFrom(c)) # FullText(reset_netlist(template, Doc).doc.objs, ClonedFrom(c))
          /\ ClonedFrom(c) \notin Clones

\* the name of the clone registered as entry k of modified_subcircuits
CloneName(k) == name(circuits[modified_subcircuits[k].id]).name

\* the names of the sub-circuits the entries of the document define
TopNames == { name(circuits[netlist[k].sub]).name : k \in { j \in 1..Len(netlist) : netlist[j].sub # 0 } }

\* the number of places of the text where pat stands
Occurrences(text, pat) ==
    Cardinality({ i \in 1..(Len(text) - Len(pat) + 1) : SubSeq(text, i, i + Len(pat) - 1) = pat })

\* the declaration line of the sub-circuit nm, up to the blank after the name
Declaration(nm) == Upper(DotSUBCKT \o << " " >> \o nm \o << " " >>)

\* C27: the name synthesized for a clone is unique: two different
\* instantiation paths never receive the same clone name, and a clone name
\* never equals the name of a sub-circuit already defined in the document,
\* so the file written never holds two sub-circuit definitions of one name.
C27_CloneNamesUnique ==
    /\ \A j, k \in 1..Len(modified_subcircuits) : j # k => CloneName(j) # CloneName(k)
    /\ \A k \in 1..Len(modified_subcircuits) : CloneName(k) \notin TopNames
    /\ \A k \in 1..Len(modified_subcircuits) :
          Occurrences(Upper(written), Declaration(CloneName(k))) <= 1

\* what holds instead: the name of a clone is the name of a sub-circuit of
\* the document, "_", and the parts of the path joined by "_"; nothing
\* compares it with the names in use
C27_CloneNameIsNameAndPath ==
    \A k \in 1..Len(modified_subcircuits) :
        \E nm \in TopNames :
            CloneName(k) = nm \o << "_" >> \o Join(Split(modified_subcircuits[k].path, SUBCKT_DIVIDER), << "_" >>)

\* the file written holds two definitions named S_X1_X2, the clones made
\* for the paths X1_X2 and X2
C27_WitnessTwoPaths ==
    /\ Len(modified_subcircuits) = 2
    /\ CloneName(1) = CloneName(2)
    /\ Occurrences(Upper(written), Declaration(CloneName(1))) = 2

\* the file written holds the sub-circuit S_X1 of the template and the
\* clone S_X1 made for the path X1
C27_WitnessNameInUse ==
    /\ Len(modified_subcircuits) = 1
    /\ CloneName(1) \in TopNames
    /\ Occurrences(Upper(written), Declaration(CloneName(1))) = 2

\* the path of the edit: the designator without its last part
EditedPath ==
    Join(SubSeq(Split(Designator, SUBCKT_DIVIDER), 1, Len(Split(Designator, SUBCKT_DIVIDER)) - 1),
         << SUBCKT_DIVIDER >>)

\* the entries of modified_subcircuits registered for the path
RegisteredFor(mod, path) == { k \in 1..Len(mod) : mod[k].path = path }

\* an edit through a path that has a clone registered
SecondEdit ==
    /\ LookupStep
    /\ IsPath
    /\ RegisteredFor(modified_subcircuits, EditedPath) # {}

\* the clone registered for the path of the edit
CloneOfPath ==
    modified_subcircuits[CHOOSE k \in 1..Len(modified_subcircuits) :
                             modified_subcircuits[k].path = EditedPath].id

\* the edit was made in the clone registered for its path: the component
\* has the value of the call, and every other entry of the clone is as it was
EditedInClone ==
    /\ calls'[Len(calls')].err = "ok"
    /\ get_component_value(circuits'[CloneOfPath], PathComponent).val = ValueText(calls'[Len(calls')].val)
    /\ Len(circuits'[CloneOfPath]) = Len(circuits[CloneOfPath])
    /\ \A k \in 1..Len(circuits[CloneOfPath]) :
          k # get_line_starting_with(circuits[CloneOfPath], PathComponent) =>
              circuits'[CloneOfPath][k] = circuits[CloneOfPath][k]

\* C28: after any sequence of edits the clone table holds at most one clone
\* per instantiation path, and a second edit through the same path changes
\* the clone made by the first edit, in which both edits are visible,
\* without cloning again and without rewriting the instance line again.
C28_OneCloneReused ==
    [][/\ \A k \in 1..Len(modified_subcircuits') :
             Cardinality(RegisteredFor(modified_subcircuits', modified_subcircuits'[k].path)) = 1
       /\ (SecondEdit /\ get_line_starting_with(circuits[CloneOfPath], PathComponent) # 0) =>
             /\ EditedInClone
             /\ modified_subcircuits' = modified_subcircuits
             /\ netlist' = netlist
             /\ Len(circuits') = Len(circuits)
             /\ \A o \in 1..Len(circuits) : o # CloneOfPath => circuits'[o] = circuits[o]]_vars

\* R1 and then R2 were set through the path X1: one clone, holding both
C28_Witness ==
    /\ Len(calls) >= 2
    /\ prev.err = "ok" /\ last.err = "ok"
    /\ prev.arg = DevX1R1
    /\ last.arg = << "X", "1", ":", "R", "2" >>
    /\ Len(modified_subcircuits) = 1
    /\ get_component_value(circuits[modified_subcircuits[1].id], DevR1).val = ValueText(prev.val)
    /\ get_component_value(circuits[modified_subcircuits[1].id], << "R", "2" >>).val = ValueText(last.val)

\* the text of the top-level entries k..n in their order, a sub-circuit
\* entry by its full text
RECURSIVE EntriesText(_, _)
EntriesText(k, n) ==
    IF k > n THEN << >>
    ELSE (IF netlist[k].sub # 0 THEN FullText(circuits, netlist[k].sub) ELSE netlist[k].text)
         \o EntriesText(k + 1, n)

\* the full text of every registered clone, once, in the order of registration
ClonesText == write_clones(modified_subcircuits, 1, circuits)

\* the top-level entries that close the circuit as the parser reads them,
\* and those that start with ".END" at column 0
ClosingEntries ==
    { k \in 1..Len(netlist) : netlist[k].sub = 0 /\ Slice(EntryCommand(netlist[k]), 0, 4) = DotEND }

EndAtColumnZero ==
    { k \in 1..Len(netlist) : netlist[k].sub = 0 /\ StartsWith(Upper(netlist[k].text), DotEND) }

\* the file written is the top-level entries with the clones, once, just
\* before the last entry
ClonesBeforeLast ==
    written = EntriesText(1, Len(netlist) - 1) \o ClonesText \o netlist[Len(netlist)].text

WrittenWithClones == last.op = "write_netlist" /\ Len(modified_subcircuits) > 0

\* C29: write_netlist emits the top-level entries in their order and, for
\* every document with registered clones, the full text of every registered
\* clone exactly once, immediately before the final closing .END directive,
\* so that every clone an instance line names is defined in the file.
C29_ClonesOnceBeforeEnd ==
    WrittenWithClones => (ClonesBeforeLast /\ Len(netlist) \in ClosingEntries)

\* what holds instead: the clones are written before every top-level line
\* that starts with ".END" at column 0; that is once and just before the
\* closing line when the closing line is the only such line
C29_ClonesBeforeEndAtColumnZero ==
    /\ (WrittenWithClones /\ EndAtColumnZero = {Len(netlist)}) => ClonesBeforeLast
    /\ (WrittenWithClones /\ EndAtColumnZero = {}) => written = EntriesText(1, Len(netlist))
    /\ Len(netlist) \in ClosingEntries

\* a file written without the clone that its X1 line names
C29_WitnessNoClone ==
    /\ WrittenWithClones
    /\ template = TemplateIndented
    /\ written = EntriesText(1, Len(netlist))
    /\ ClonesText # << >>

\* a file written with the clones twice: before .endl and before .end
C29_WitnessTwice ==
    /\ WrittenWithClones
    /\ Cardinality(EndAtColumnZero) = 2
    /\ Occurrences(written, CloneHeader) = 2 * Len(modified_subcircuits)

\* how many times the task k stands in the sequence of tasks q
Times(q, k) == Cardinality({ j \in 1..Len(q) : q[j] = k })

MovedTasks == [j \in 1..Len(moves) |-> moves[j].task]

\* no thread is inside update_completed
NoUpdateInProgress == \A t \in Threads : uc[t].pc \in {"idle", "done"}

\* C30: when update_completed runs in the monitor thread and in a caller
\* thread at once, every finished task is still moved to completed exactly
\* once and counted exactly once in okSim / failSim, and no task whose
\* thread is still alive is moved to completed.
C30_ConcurrentUpdateIsExact ==
    /\ \A k \in 1..Len(tasks) : Times(MovedTasks, k) <= 1 /\ Times(counts, k) <= 1
    /\ \A j \in 1..Len(moves) : ~moves[j].alive
    /\ \A t \in Threads : uc[t].pc # "IndexError"
    /\ NoUpdateInProgress =>
          \A k \in 1..Len(tasks) :
              Times(MovedTasks, k) = 1 =>
                  /\ Times(counts, k) = 1
                  /\ Times(active_tasks, k) = 0

\* what holds whatever the interleaving: each counter step counted one
\* task, a task leaves active_tasks once and is appended once, and the
\* counters count the tasks counted
C30_EachPopAppendedOnce ==
    /\ okSim + failSim = Len(counts)
    /\ \A k \in 1..Len(tasks) :
          /\ Times(MovedTasks, k) <= 1
          /\ Times(active_tasks, k) + Times(MovedTasks, k)
                + Cardinality({ t \in Threads : uc[t].pc = "append" /\ uc[t].task = k }) = 1
    /\ Len(moves) <= Len(counts)

\* both threads found the first task finished: it was counted twice, and
\* the second pop moved a task whose thread is alive
C30_WitnessAliveMoved ==
    /\ \E j \in 1..Len(moves) : moves[j].alive
    /\ \E k \in 1..Len(tasks) : Times(counts, k) = 2

\* the second pop found the list empty: IndexError in that thread
C30_WitnessIndexError ==
    \E t \in Threads : uc[t].pc = "IndexError"

\* the list that holds the instance line a path addresses: the top-level
\* list, or the clone registered for the path without its last part
HolderOf(nl, objs, mod, parts) ==
    IF Len(parts) = 1 THEN nl
    ELSE IF \E k \in 1..Len(mod) : mod[k].path = Join(SubSeq(parts, 1, Len(parts) - 1), << SUBCKT_DIVIDER >>)
    THEN objs[ModifiedAt(mod, Join(SubSeq(parts, 1, Len(parts) - 1), << SUBCKT_DIVIDER >>))]
    ELSE << >>

\* the sub-circuit name on the instance line the path addresses
AddressedTarget(nl, objs, mod, path) ==
    InstanceTarget(HolderOf(nl, objs, mod, Split(path, SUBCKT_DIVIDER)),
                   Split(path, SUBCKT_DIVIDER)[Len(Split(path, SUBCKT_DIVIDER))])

\* entry k of the clone table is in use: its instance line names the clone
InUse(nl, objs, mod, k) ==
    AddressedTarget(nl, objs, mod, mod[k].path) = name(objs[mod[k].id]).name

\* C31: for every path registered in the clone table, after any sequence
\* of set_component_value and set_element_model calls, the instance line
\* the path addresses names the clone registered for the path, so every
\* clone written is in use and a later edit through the path takes effect
\* on that instance.
C31_InstanceNamesItsClone ==
    \A k \in 1..Len(modified_subcircuits) : InUse(netlist, circuits, modified_subcircuits, k)

\* what holds instead: the instance line names the clone when the path is
\* registered, and stops naming it only by a call that sets the instance
\* line itself; the entry of the clone table stays
C31_InUseUntilInstanceIsSet ==
    [][/\ \A k \in 1..Len(modified_subcircuits) :
             /\ k <= Len(modified_subcircuits')
             /\ modified_subcircuits'[k] = modified_subcircuits[k]
             /\ (InUse(netlist, circuits, modified_subcircuits, k)
                  /\ ~InUse(netlist', circuits', modified_subcircuits', k)) =>
                    calls'[Len(calls')].arg = modified_subcircuits[k].path
       /\ \A k \in (Len(modified_subcircuits) + 1)..Len(modified_subcircuits') :
             InUse(netlist', circuits', modified_subcircuits', k)]_vars

\* R1 was set through X1, then set_element_model('X1', 'S'): the file written
\* holds the clone S_X1 and no line that names it
C31_WitnessCloneNotInUse ==
    /\ last.op = "write_netlist"
    /\ prev.op = "set_element_model" /\ prev.err = "ok"
    /\ Len(modified_subcircuits) = 1
    /\ ~InUse(netlist, circuits, modified_subcircuits, 1)
    /\ Occurrences(Upper(written), Declaration(CloneName(1))) = 1
    /\ InstanceTarget(netlist, InstX1) = NameS

DevX1X2R1 == << "X", "1", ":", "X", "2", ":", "R", "1" >>

\* the document as the constructor leaves it
Pristine == reset_netlist(template, [netlist |-> << >>, objs |-> << >>, modified |-> << >>]).doc

\* the document after the two calls of the history made in the opposite order
OppositeOrder ==
    editor_set_model_and_value(
        editor_set_model_and_value(Pristine, calls[2].arg, calls[2].val).doc,
        calls[1].arg, calls[1].val)

\* two calls were made on a document where X1 instantiates a sub-circuit
\* that holds the instance X2: first inside X1, then inside X1:X2
OuterThenInner ==
    /\ template = TemplateNested
    /\ Len(calls) = 2
    /\ calls[1].op = "set_component_value" /\ calls[1].arg = DevX1R1
    /\ calls[2].op = "set_component_value" /\ calls[2].arg = DevX1X2R1

InnerThenOuter ==
    /\ template = TemplateNested
    /\ Len(calls) = 2
    /\ calls[1].op = "set_component_value" /\ calls[1].arg = DevX1X2R1
    /\ calls[2].op = "set_component_value" /\ calls[2].arg = DevX1R1

\* C32: edits through nested paths do not depend on their order: with X1
\* an instance of a sub-circuit that holds an instance X2,
\* set_component_value('X1:R1', a) followed by
\* set_component_value('X1:X2:R1', b) succeeds and gives the same file as
\* the two calls made in the opposite order.
C32_NestedEditsCommute ==
    OuterThenInner =>
        /\ calls[1].err = "ok" /\ calls[2].err = "ok"
        /\ OppositeOrder.err = "ok"
        /\ write_netlist(Doc, 1) = write_netlist(OppositeOrder.doc, 1)

\* what holds instead: the inner path first and the outer path second
\* succeed, with both clones registered; the outer path first makes the
\* call through the inner path raise ComponentNotFoundError and leave the
\* document as the first call left it
C32_InnerFirstOnly ==
    /\ InnerThenOuter =>
          /\ calls[1].err = "ok" /\ calls[2].err = "ok"
          /\ Len(modified_subcircuits) = 2
    /\ OuterThenInner =>
          /\ calls[1].err = "ok" /\ calls[2].err = "ComponentNotFoundError"
          /\ OppositeOrder.err = "ok"
          /\ Doc = editor_set_model_and_value(Pristine, calls[1].arg, calls[1].val).doc

C32_WitnessOuterThenInner == OuterThenInner /\ last.err = "ComponentNotFoundError"

C32_WitnessInnerThenOuter == InnerThenOuter /\ last.err = "ok"

\* the step is a set_component_value or set_element_model call that raised
RaisingSet ==
    /\ Len(calls') = Len(calls) + 1
    /\ calls'[Len(calls')].op \in {"set_component_value", "set_element_model"}
    /\ calls'[Len(calls')].err # "ok"

\* C33: a set_component_value or set_element_model call that raises,
\* a call through a nested path whose last component does not exist
\* included, leaves the top-level entries and the clone table as they were
\* before the call.
C33_RaisingSetChangesNothing ==
    [][RaisingSet =>
          /\ netlist' = netlist
          /\ modified_subcircuits' = modified_subcircuits]_vars

\* what holds instead: a raising call leaves the document alone when its
\* designator is a top-level one or when the path is already in the clone
\* table; a raising call through a path not yet in the table whose instance
\* and sub-circuit are found has registered the clone and retargeted the
\* instance line before it raised
C33_RaisingSetMayRegisterClone ==
    [][RaisingSet =>
          IF ~IsPath \/ InModified(modified_subcircuits, EditedPath)
          THEN /\ netlist' = netlist
               /\ modified_subcircuits' = modified_subcircuits
          ELSE \/ /\ netlist' = netlist
                  /\ modified_subcircuits' = modified_subcircuits
               \/ /\ Len(modified_subcircuits') = Len(modified_subcircuits) + 1
                  /\ modified_subcircuits'[Len(modified_subcircuits')].path = EditedPath
                  /\ netlist' # netlist]_vars

\* a call through X1 on a component that is not in the sub-circuit raised,
\* and the clone made for X1 is in the table
C33_WitnessCloneLeftBehind ==
    /\ Len(calls) = 1
    /\ last.arg = << "X", "1", ":", "R", "9" >>
    /\ last.err = "ComponentNotFoundError"
    /\ Len(modified_subcircuits) = 1

C33_WitnessTopLevelRaise ==
    /\ Len(calls) = 1
    /\ last.arg = << "R", "9" >>
    /\ last.op = "set_component_value"
    /\ last.err # "ok"
    /\ Len(modified_subcircuits) = 0

\* the step is a set_component_value call with a top-level designator
TopSetStep ==
    /\ Len(calls') = Len(calls) + 1
    /\ calls'[Len(calls')].op = "set_component_value"
    /\ ~IsPath

\* the top-level entries whose leading token is the designator of the call,
\* whatever the case of the letters
TopHits ==
    { k \in 1..Len(netlist) :
        /\ netlist[k].sub = 0
        /\ first_token_upped(netlist[k].text) = Upper(Designator) }

FirstTopHit == CHOOSE k \in TopHits : \A j \in TopHits : k <= j

\* the text t is the text s with the characters from a to b - 1 replaced by v
Spliced(s, t, a, b, v) ==
    /\ 1 <= a /\ a <= b /\ b <= Len(s) + 1
    /\ t = SubSeq(s, 1, a - 1) \o v \o SubSeq(s, b, Len(s))

\* the entry k alone changed, between the characters the pattern of the
\* element type reads as the value
OnlyValueOf(k) ==
    /\ Len(netlist') = Len(netlist)
    /\ \A j \in 1..Len(netlist) : j # k => netlist'[j] = netlist[j]
    /\ netlist'[k].sub = 0
    /\ \E a, b \in 1..(Len(netlist[k].text) + 1) :
          /\ Spliced(netlist[k].text, netlist'[k].text, a, b, ValueText(calls'[Len(calls')].val))
          /\ a <= b
          /\ get_component_value(netlist, Designator).val = SubSeq(netlist[k].text, a, b - 1)

\* C34: set_component_value(d, v) for a top-level designator d changes only
\* the value field of the first top-level entry whose leading token is d in
\* any case of the letters: every other entry, every other character of
\* that entry, every sub-circuit block, one holding a component with the
\* same designator included, and the clone table are left as they were.
C34_OnlyTheValueField ==
    [][TopSetStep =>
          /\ circuits' = circuits
          /\ modified_subcircuits' = modified_subcircuits
          /\ \/ netlist' = netlist
             \/ /\ TopHits # {}
                /\ calls'[Len(calls')].err = "ok"
                /\ OnlyValueOf(FirstTopHit)]_vars

\* the second of two lines starting with R1 was left alone while the
\* first, written in small letters, got the value, and the R1 of the
\* sub-circuit ahead of both kept its own
C34_WitnessFirstOfTwo ==
    /\ template = TemplateFirst
    /\ Len(calls) = 1
    /\ last.arg = DevR1 /\ last.err = "ok"
    /\ netlist[3].text = << "r", "1", " ", "a", " ", "b", " ", "4", "k", " ", "t", "c", "=", "1", "\n" >>
    /\ netlist[4].text = TemplateFirst[7]
    /\ circuits[netlist[2].sub][2].text = TemplateFirst[3]

\* the step is an add_instruction call with a directive that is not of a
\* unique kind and is not an entry of the document
FreshAddStep ==
    /\ Len(calls') = Len(calls) + 1
    /\ calls'[Len(calls')].op = "add_instruction"
    /\ ~is_unique_instruction(StrEntry(Terminated(Designator)))
    /\ \A k \in 1..Len(netlist) : netlist[k] # StrEntry(Terminated(Designator))

\* C35: for a directive text that is not of a unique kind and is not an
\* entry of the document, add_instruction(text) followed by
\* remove_instruction(text) gives back exactly the entries the document
\* had, and add_instruction(text) a second time changes nothing.
C35_AddThenRemoveRestores ==
    [][FreshAddStep =>
          /\ netlist' # netlist
          /\ remove_instruction(netlist', Designator) = [err |-> "ok", nl |-> netlist]
          /\ add_instruction(netlist', Designator) = netlist']_vars

\* a directive given without its line terminator was added and then removed,
\* and the entries are those of the file again
C35_WitnessRestored ==
    /\ Len(calls) = 2
    /\ prev.op = "add_instruction" /\ prev.arg = << ".", "i", "c", " ", "1" >>
    /\ last.op = "remove_instruction" /\ last.arg = prev.arg /\ last.err = "ok"
    /\ netlist = Pristine.netlist

\* the same directive was added twice, and is in the document once
C35_WitnessAddedTwice ==
    /\ Len(calls) = 2
    /\ prev.op = "add_instruction" /\ last.op = "add_instruction"
    /\ Terminated(prev.arg) = Terminated(last.arg)
    /\ Len(netlist) = Len(Pristine.netlist) + 1

\* the step is an add_instruction or set_parameter call that put a new
\* entry in the document
InsertingStep ==
    /\ Len(calls') = Len(calls) + 1
    /\ calls'[Len(calls')].op \in {"add_instruction", "set_parameter"}
    /\ Len(netlist') = Len(netlist) + 1

\* the new entry is entry k of the document after the step
InsertedAt(k) ==
    /\ k \in 1..Len(netlist')
    /\ SubSeq(netlist', 1, k - 1) = SubSeq(netlist, 1, k - 1)
    /\ SubSeq(netlist', k + 1, Len(netlist')) = SubSeq(netlist, k, Len(netlist))

\* the entries that are the .backanno line add_instruction looks for
Markers(nl) ==
    { k \in 1..Len(nl) : nl[k] = StrEntry(<< ".", "b", "a", "c", "k", "a", "n", "n", "o", "\n" >>) }

\* the last entry is the closing line of the circuit
EndIsLast(nl) ==
    /\ Len(nl) > 0
    /\ nl[Len(nl)].sub = 0
    /\ StartsWith(get_line_command(nl[Len(nl)].text), DotEND)

\* C36: after any sequence of add_instruction and set_parameter calls on
\* a parsed document the closing .END line is still the last entry and
\* every inserted line lies before it: before the .backanno line when the
\* document has one, otherwise two entries from the end, whatever the
\* length of the document.
C36_InsertedBeforeMarker ==
    [][InsertingStep =>
          /\ EndIsLast(netlist')
          /\ \E k \in 1..(Len(netlist') - 1) :
                /\ InsertedAt(k)
                /\ IF Markers(netlist) # {}
                   THEN \A j \in Markers(netlist') : k < j
                   ELSE k = Len(netlist') - 2]_vars

\* what holds instead: the closing line stays last and the inserted line
\* is before it; add_instruction inserts just before the first .backanno
\* line; set_parameter, and add_instruction without such a line, insert
\* two entries from the end, or one when the document has one entry
C36_InsertedBeforeEnd ==
    [][InsertingStep =>
          /\ EndIsLast(netlist')
          /\ \E k \in 1..(Len(netlist') - 1) :
                /\ InsertedAt(k)
                /\ IF calls'[Len(calls')].op = "add_instruction" /\ Markers(netlist) # {}
                   THEN k + 1 \in Markers(netlist') /\ \A j \in Markers(netlist') : k < j
                   ELSE k = (IF Len(netlist) = 1 THEN 1 ELSE Len(netlist') - 2)]_vars

\* a parameter line was inserted after the .backanno line
C36_WitnessAfterMarker ==
    /\ template = TemplateMarker
    /\ Len(calls) = 1 /\ last.op = "set_parameter"
    /\ Len(netlist) = 5
    /\ 2 \in Markers(netlist)
    /\ StartsWith(netlist[3].text, << ".", "P", "A", "R", "A", "M" >>)

\* a line was inserted in a document of one entry, one entry from the end
C36_WitnessOneEntry ==
    /\ template = TemplateOne
    /\ Len(calls) = 1
    /\ Len(netlist) = 2
    /\ EndIsLast(netlist)

\* the run() calls that ended in a refusal, the tasks still in active_tasks
\* and those counted as success or failure
Accounted == okSim + failSim + Len(active_tasks) + refused

\* C37: at every point between the scheduler calls of a single caller,
\* runno = okSim + failSim + len(active_tasks) + the number of run() calls
\* that ended in a refusal.
C37_RunnoAccounted == pc = "idle" => runno = Accounted

\* what holds instead: the equation holds between the calls of a SimRunner
\* whose default timeout is a number; with timeout=None every run() and
\* run_now() call made without a timeout takes a run number and raises
\* TypeError, and runno is ahead of the sum
C37_AccountedUnlessRaised ==
    pc = "idle" =>
        /\ runno >= Accounted
        /\ timeout # NoneT => runno = Accounted

\* a refused launch and a finished one are both counted
C37_WitnessRefusedCounted ==
    /\ pc = "idle" /\ refused > 0 /\ okSim + failSim > 0
    /\ runno = Accounted

\* a call raised TypeError after taking a run number
C37_WitnessRaisedNotCounted ==
    /\ pc = "idle" /\ result.val = "TypeError"
    /\ runno = 1 /\ Accounted = 0

\* the timeout that applies to the task k
EffectiveTimeout(k) == IF tasks[k].timeout # NoneT THEN tasks[k].timeout ELSE timeout

\* wait_completion() was called without a timeout while every active task
\* has a timeout that ends before the clock of the model stops
WaitingOnDeadlines ==
    /\ pc \in {"wc_test", "wc_sleep"}
    /\ wc_timeout = NoneT
    /\ \A i \in 1..Len(active_tasks) :
          /\ EffectiveTimeout(active_tasks[i]) # NoneT
          /\ tasks[active_tasks[i]].start_time + EffectiveTimeout(active_tasks[i]) < MaxTime

\* the step is wait_completion(), called without a timeout, returning False
\* from inside its loop
DeadlineReturn ==
    /\ pc = "wc_sleep" /\ wc_timeout = NoneT
    /\ pc' = "idle"

\* C38: wait_completion() called without a timeout eventually returns
\* whenever every active task has a finite timeout, even if a simulator
\* process never exits; its deadline is the latest start time plus timeout
\* over the tasks still active, and it returns False, leaving the
\* unfinished tasks in active_tasks, once that deadline has passed.
C38_WaitReturnsAtLastDeadline ==
    /\ WaitingOnDeadlines ~> pc = "idle"
    /\ [][DeadlineReturn =>
             /\ result' = [op |-> "wait_completion", val |-> "False"]
             /\ Len(active_tasks') > 0
             /\ \A i \in 1..Len(active_tasks') : tasks[active_tasks'[i]].alive
             /\ \A i \in 1..Len(active_tasks) :
                   tasks[active_tasks[i]].alive <=>
                       \E j \in 1..Len(active_tasks') : active_tasks'[j] = active_tasks[i]
             /\ \E i \in 1..Len(active_tasks') : EffectiveTimeout(active_tasks'[i]) # NoneT
             /\ \A i \in 1..Len(active_tasks') :
                   EffectiveTimeout(active_tasks'[i]) # NoneT =>
                       now > tasks[active_tasks'[i]].start_time + EffectiveTimeout(active_tasks'[i])]_vars
    /\ [][(pc = "wc_sleep" /\ wc_timeout = NoneT /\ pc' = "wc_test") =>
             \A i \in 1..Len(active_tasks') :
                 EffectiveTimeout(active_tasks'[i]) # NoneT =>
                     \E j \in 1..Len(active_tasks') :
                         /\ EffectiveTimeout(active_tasks'[j]) # NoneT
                         /\ now <= tasks[active_tasks'[j]].start_time + EffectiveTimeout(active_tasks'[j])]_vars

\* wait_completion() returned False while a task whose process has not
\* exited is still in active_tasks, its timeout over
C38_WitnessReturnedFalse ==
    /\ pc = "idle"
    /\ result = [op |-> "wait_completion", val |-> "False"]
    /\ failSim = 0
    /\ \E i \in 1..Len(active_tasks) :
          /\ tasks[active_tasks[i]].alive
          /\ now > tasks[active_tasks[i]].start_time + EffectiveTimeout(active_tasks[i])

\* the step reads the file that write_netlist wrote
ReadStep ==
    /\ Len(calls') = Len(calls) + 1
    /\ calls'[Len(calls')].op = "SpiceEditor"

\* C39: a SpiceEditor created with create_blank=True for a file that does
\* not exist writes a well-formed netlist: what write_netlist wrote, read
\* again, gives the same entries, the comment line and the closing .end as
\* separate lines, also after add_instruction or set_parameter calls on the
\* blank document.
C39_BlankRoundTrip ==
    [][(ReadStep /\ template = BlankLines) =>
          /\ calls'[Len(calls')].err = "ok"
          /\ netlist' = netlist
          /\ Len(netlist') >= 2]_vars

\* what holds instead: the file of a document created blank never reads
\* back, its comment line and its .end being written as one line with no
\* terminator between them; the file of a document read from a file does
C39_BlankFileDoesNotRead ==
    [][ReadStep =>
          IF template = BlankLines
          THEN /\ calls'[Len(calls')].err = "SyntaxError"
               /\ EndsWith(written, BlankLines[1] \o BlankLines[2])
          ELSE /\ calls'[Len(calls')].err = "ok"
               /\ netlist' = netlist]_vars

\* a blank document was written after a directive was added, and reading
\* the file raised
C39_WitnessBlankWritten ==
    /\ template = BlankLines
    /\ Len(calls) = 3
    /\ calls[1].op = "add_instruction"
    /\ calls[2].op = "write_netlist"
    /\ calls[3].op = "SpiceEditor" /\ calls[3].err = "SyntaxError"

\* a document read from a file was written and read back
C39_WitnessFileReadBack ==
    /\ template = TemplateParam
    /\ last.op = "SpiceEditor" /\ last.err = "ok"
====
